---------------------------- MODULE Spec2Model ----------------------------
(***************************************************************************)
(* A model of PIGO's coordinate-format (COO) reader and its binary codec:  *)
(* the FileReader scanning primitives of pigo.impl.hpp, and the two-pass   *)
(* parallel edge-list parser (COO::read_el_), the per-record filter        *)
(* (detail::read_coord_entry_i_) and COO::save / COO::read_bin_ of         *)
(* coo.impl.hpp.                                                           *)
(*                                                                         *)
(* The mapped file is the sequence buf of one-character strings; a         *)
(* FileReader is a pair (d, end) of byte offsets into it.  Output arrays   *)
(* are functions over 0..m-1.                                              *)
(***************************************************************************)
EXTENDS Integers, Sequences, FiniteSets, TLC

VARIABLES
    \* ---- the text constructor (File::File, COO::read_el_) ----
    lines,       \* the input as generated: a sequence of line descriptors
    finalNL,     \* whether the last line of the input ends with a newline
    buf,         \* the bytes of the mapped file
    sym, ut, sl, \* the structural template flags
    wkind,       \* the weight type: "none" (wgt = false), "uint", "int", "fp"
    num_threads, \* omp_get_num_threads()
    pc,          \* "open", "run", "done", "error"
    wpc,         \* per thread: "p1", "bar1", "bar2", "p2", "fin"
    rs,          \* per thread: its reader rs after smaller_end, [d, end]
    nl_offsets,  \* the shared vector nl_offsets
    m_, x_, y_, w_, nrows_, ncols_, n_,
    rs_p2,       \* per thread: the position of its Pass 2 reader
    coord_pos,   \* per thread: its Pass 2 output cursor
    max_row, max_col,   \* per thread: the reduction variables
    \* ---- history variables of the text constructor ----
    org,         \* per index of x_/y_: byte offset of the record stored there, -1 if none
    wr_x, wr_y, wr_w,   \* per index: the threads that stored into it
    oob,         \* the stores made at an index >= m_: [t, a, i]
    seen,        \* per thread: the offsets of the records its Pass 2 parsed
    \* ---- the binary codec (COO::save, COO::read_bin_) ----
    bpc,         \* "init", "saved", "loaded", "error"
    src_coo,     \* the COO that is saved
    bfile,       \* the bytes of the binary file
    dst_coo,     \* the COO that read_bin_ builds
    bthreads,    \* the number of threads of parallel_write / parallel_read
    \* ---- the text writer (COO::write) and the read of what it wrote ----
    tw_pc,       \* "read", "pass1", "pass2", "written", "reread", "error"
    tw_at,       \* per thread: "p1", "bar", "p2", "fin"
    pos_offsets, \* the shared vector pos_offsets
    out,         \* the bytes of the file that write creates
    coo2,        \* the COO read from the written file
    tw_wr,       \* the bytes stored by Pass 2 of write: [t, pos], thread t
                 \* stored the byte at offset pos from f->fp()
    \* ---- the conversion from a CSR (COO::convert_csr_) ----
    cv_pc,       \* "init", "rows", "done", "error"
    csr,         \* the CSR: [n, m, offsets, endpoints, weights]
    cv_rows,     \* the vertices whose iteration of the parallel for is done
    cv_alloc,    \* whether allocate_() has been called
    cv_st,       \* the stores made so far: [v, j, a, i], the j-th store of the
                 \* iteration of vertex v, into index i of array a
    \* ---- the MatrixMarket reader (COO::read_mm_) ----
    mm_pc,       \* "header", "body", "check", "done", "error"
    mm_in,       \* the input as generated: its header words and numbers
    mm_d,        \* the position of the reader r
    mm_hdr,      \* the locals nrows, ncols, nnz
    mm_err,      \* which throw ended read_mm_, "none" if none
    mm_alloc,    \* whether read_el_ has run (records parsed, arrays allocated)
    mm_first,    \* the outcome of the read of the file before its symmetry
                 \* token was replaced, <<>> when it was not replaced
    \* ---- read_bin_ on a file that is not what save wrote ----
    alt_kind,    \* how the file differs from the saved one
    alt_beyond,  \* how many bytes were copied from beyond the end of the file
    \* ---- File::guess_file_type ----
    gf_pc,       \* "init", "done", "error"
    gf_data,     \* the bytes of the file
    gf_fn,       \* fn_, the name of the file
    gf_type,     \* the FileType returned
    \* ---- COO::split_cvs_write ----
    sp_pc,       \* "loop", "pass1", "pass2", "done"
    sp_in,       \* the COO and the arguments fn, edge_per_file, edgeIDs; the number of threads
    sp_start,    \* start
    sp_fcnt,     \* fcnt
    sp_at,       \* where each thread is in the parallel region
    sp_offsets,  \* pos_offsets
    sp_f,        \* the file being written: its name and its bytes
    sp_files,    \* the files written and closed, in order
    \* ---- one scanning primitive of FileReader on a region of the file ----
    sc_pc,       \* "init", "one", "other", "done"
    sc_prim,     \* the primitive called
    sc_d,        \* d before the call
    sc_end,      \* end
    sc_alt,      \* the byte that later replaces the bytes from end on
    sc_r1,       \* d after the call
    sc_r2,       \* d after the same call on the file with the replaced bytes
    \* ---- write_size and write_ascii of one integral value ----
    fm_pc,       \* "init", "sized", "written"
    fm_v,        \* the value
    fm_size,     \* what write_size returned
    fm_out,      \* the bytes from fp on after write_ascii, up to the new fp
    \* ---- one call of parallel_write or parallel_read ----
    cp_pc,       \* "copy", "done"
    cp_in,       \* [kind, n, nt, fp]: the function, v_size, the number of
                 \* threads, fp at the call
    cp_done,     \* the threads whose memcpy is done
    cp_bytes,    \* the bytes copied: [t, i], thread t copied the byte at
                 \* offset i of the v_size bytes
    cp_fp,       \* fp
    \* ---- COO::read_ on a file of a declared or detected type ----
    rd_pc,       \* "init", "type", "done", "error"
    rd_in,       \* [ft, data, fn]: the FileType given, the bytes and the
                 \* name of the file
    rd_used,     \* ft_used
    rd_call,     \* the loader called, or the exception thrown
    \* ---- the loop over the files of COO::split_cvs_write, O = uint32_t ----
    lp_pc,       \* "test", "body", "done"
    lp_in,       \* [m, k]: m_ and edge_per_file
    lp_start,    \* start
    lp_end       \* end

el_vars == <<lines, finalNL, buf, sym, ut, sl, wkind, num_threads, pc, wpc, rs,
             nl_offsets, m_, x_, y_, w_, nrows_, ncols_, n_, rs_p2, coord_pos,
             max_row, max_col, org, wr_x, wr_y, wr_w, oob, seen>>

bin_vars == <<bpc, src_coo, bfile, dst_coo, bthreads>>

tw_vars == <<tw_pc, tw_at, pos_offsets, out, coo2, tw_wr>>

\* the variables of the operations other than the text constructor and the
\* binary codec
cv_vars == <<cv_pc, csr, cv_rows, cv_alloc, cv_st>>

mm_vars == <<mm_pc, mm_in, mm_d, mm_hdr, mm_err, mm_alloc, mm_first>>

alt_vars == <<alt_kind, alt_beyond>>

gf_vars == <<gf_pc, gf_data, gf_fn, gf_type>>

sp_vars == <<sp_pc, sp_in, sp_start, sp_fcnt, sp_at, sp_offsets, sp_f, sp_files>>

sc_vars == <<sc_pc, sc_prim, sc_d, sc_end, sc_alt, sc_r1, sc_r2>>

fm_vars == <<fm_pc, fm_v, fm_size, fm_out>>

cp_vars == <<cp_pc, cp_in, cp_done, cp_bytes, cp_fp>>

\* the variables of the operations modelled last
rd_vars == <<rd_pc, rd_in, rd_used, rd_call>>

lp_vars == <<lp_pc, lp_in, lp_start, lp_end>>

rest_vars == <<cp_vars, rd_vars, lp_vars>>

ext_vars == <<tw_vars, cv_vars, mm_vars, alt_vars, gf_vars, sp_vars, sc_vars, fm_vars, rest_vars>>

vars == <<el_vars, bin_vars, ext_vars>>

-----------------------------------------------------------------------------
(* Bounds of the model *)

\* the largest number of lines of a generated input
MaxLines == 2

\* the largest number of OpenMP threads
MaxThreads == 3

-----------------------------------------------------------------------------
(* Bytes and integer widths *)

NL == "\n"

Digits == {"0", "1", "2", "3", "4", "5", "6", "7", "8", "9"}

\* L is instantiated as a 16-bit unsigned label type
LMod == 2^16

\* the byte after the last byte of the mapping (the zero fill of its last page)
NUL == "NUL"

\* *d
Peek(d) == IF d < Len(buf) THEN buf[d + 1] ELSE NUL

\* *d - '0'
DigitVal(c) ==
    CASE c = "0" -> 0 [] c = "1" -> 1 [] c = "2" -> 2 [] c = "3" -> 3
      [] c = "4" -> 4 [] c = "5" -> 5 [] c = "6" -> 6 [] c = "7" -> 7
      [] c = "8" -> 8 [] c = "9" -> 9

IsDigit(c) == c \in Digits

IsComment(c) == c = "%" \/ c = "#"

IsFp(c) == IsDigit(c) \/ c \in {"e", "E", "-", "+", "."}

Max(a, b) == IF a > b THEN a ELSE b

Min(a, b) == IF a < b THEN a ELSE b

\* the element of a set of one element
Only(S) == CHOOSE v \in S : TRUE

\* F applied to the value of v: a local of the code, computed once where it
\* is declared
With(v, F(_)) == Only({F(x) : x \in {v}})

RECURSIVE Pow10(_)
Pow10(k) == IF k <= 0 THEN 1 ELSE 10 * Pow10(k - 1)

-----------------------------------------------------------------------------
(* FileReader: the scanning primitives.  Each takes the reader's position  *)
(* d and its end, and gives the new position.                              *)

\* FileReader::good
good(d, end) == d < end

\* the inner loop of skip_comments: while (d < end && (*d++ != '\n')) { }
RECURSIVE skip_line(_, _)
skip_line(d, end) ==
    IF d < end
    THEN IF Peek(d) # NL THEN skip_line(d + 1, end) ELSE d + 1
    ELSE d

RECURSIVE skip_comments(_, _)
skip_comments(d, end) ==
    IF d < end /\ IsComment(Peek(d))
    THEN skip_comments(skip_line(d, end), end)
    ELSE d

RECURSIVE move_to_non_int(_, _)
move_to_non_int(d, end) ==
    IF d < end /\ IsDigit(Peek(d)) THEN move_to_non_int(d + 1, end) ELSE d

RECURSIVE move_to_non_fp(_, _)
move_to_non_fp(d, end) ==
    IF d < end /\ IsFp(Peek(d)) THEN move_to_non_fp(d + 1, end) ELSE d

RECURSIVE move_to_fp(_, _)
move_to_fp(d, end) ==
    IF d < end /\ ~IsFp(Peek(d)) THEN move_to_fp(d + 1, end) ELSE d

RECURSIVE move_to_eol(_, _)
move_to_eol(d, end) ==
    IF d < end /\ Peek(d) # NL THEN move_to_eol(d + 1, end) ELSE d

\* the while loop of move_to_first_int
RECURSIVE first_int_loop(_, _)
first_int_loop(d, end) ==
    IF d < end /\ ~IsDigit(Peek(d))
    THEN first_int_loop(IF IsComment(Peek(d + 1))
                        THEN skip_comments(d + 1, end)
                        ELSE d + 1, end)
    ELSE d

move_to_first_int(d, end) ==
    first_int_loop(IF IsComment(Peek(d)) THEN skip_comments(d, end) ELSE d, end)

move_to_next_int(d, end) == move_to_first_int(move_to_non_int(d, end), end)

\* the while loop of move_to_next_signed_int
RECURSIVE signed_int_loop(_, _)
signed_int_loop(d, end) ==
    IF d < end /\ ~IsDigit(Peek(d)) /\ Peek(d) # "+" /\ Peek(d) # "-"
    THEN signed_int_loop(IF IsComment(Peek(d + 1))
                         THEN skip_comments(d + 1, end)
                         ELSE d + 1, end)
    ELSE d

move_to_next_signed_int(d, end) ==
    LET d1 == IF Peek(d) = "+" \/ Peek(d) = "-" THEN d + 1 ELSE d
        d2 == move_to_non_int(d1, end)
        d3 == IF IsComment(Peek(d2)) THEN skip_comments(d2, end) ELSE d2
    IN  signed_int_loop(d3, end)

\* the digit loop of read_int: folds the digits into res, in T's width
RECURSIVE read_digits(_, _, _, _)
read_digits(d, end, res, mod) ==
    IF d < end /\ IsDigit(Peek(d))
    THEN read_digits(d + 1, end, (res * 10 + DigitVal(Peek(d))) % mod, mod)
    ELSE [d |-> d, v |-> res]

RECURSIVE skip_non_digits(_, _)
skip_non_digits(d, end) ==
    IF d < end /\ ~IsDigit(Peek(d)) THEN skip_non_digits(d + 1, end) ELSE d

\* FileReader::read_int<T>, T unsigned of modulus mod
read_int(d, end, mod) == read_digits(skip_non_digits(d, end), end, 0, mod)

\* FileReader::read_sign<T>
read_sign(d) == IF Peek(d) = "-" THEN 0 - 1 ELSE 1

\* the digit loops of read_fp: the value and the number of digits folded
RECURSIVE fp_digits(_, _, _, _)
fp_digits(d, end, res, cnt) ==
    IF d < end /\ IsDigit(Peek(d))
    THEN fp_digits(d + 1, end, res * 10 + DigitVal(Peek(d)), cnt + 1)
    ELSE [d |-> d, v |-> res, n |-> cnt]

\* FileReader::read_fp<T>.  A floating point value is held in tenths (the
\* value times ten, truncated), which is exact for the weights of the
\* generated inputs.
RECURSIVE read_fp(_, _)
read_fp(d, end) ==
    LET d0 == move_to_fp(d, end)
        positive == Peek(d0) # "-"
        d1 == IF Peek(d0) = "-" \/ Peek(d0) = "+" THEN d0 + 1 ELSE d0
        a  == fp_digits(d1, end, 0, 0)
        b  == IF Peek(a.d) = "." THEN fp_digits(a.d + 1, end, 0, 0)
                                 ELSE [d |-> a.d, v |-> 0, n |-> 0]
        r1 == a.v * 10 + ((b.v * 10) \div Pow10(b.n))
        ex == IF Peek(b.d) = "e" \/ Peek(b.d) = "E"
              THEN read_fp(b.d + 1, end)
              ELSE [d |-> b.d, v |-> 0]
        r2 == IF ex.v >= 0 THEN r1 * Pow10(ex.v \div 10)
                           ELSE r1 \div Pow10((0 - ex.v) \div 10)
    IN  [d |-> ex.d, v |-> IF positive THEN r2 ELSE 0 - r2]

-----------------------------------------------------------------------------
(* detail::read_wgt_i_ and detail::read_coord_entry_i_ *)

\* the counting specializations of read_wgt_i_: the new reader position
read_wgt_count(d, end) ==
    CASE wkind = "int"  -> move_to_next_signed_int(d, end)
      [] wkind = "uint" -> move_to_next_int(d, end)
      [] wkind = "fp"   -> move_to_non_fp(move_to_fp(d, end), end)
      [] OTHER          -> d

\* the reading specializations of read_wgt_i_: the new reader position and
\* the value stored at w_[coord_pos]
read_wgt_set(d, end) ==
    CASE wkind = "int"  ->
            LET d1 == move_to_next_signed_int(d, end)
                sign == read_sign(d1)
                r == read_int(d1, end, LMod)
            IN  [d |-> r.d, v |-> r.v * sign]
      [] wkind = "uint" -> read_int(move_to_next_int(d, end), end, LMod)
      [] wkind = "fp"   ->
            LET r == read_fp(move_to_fp(d, end), end)
            IN  [d |-> move_to_non_fp(r.d, end), v |-> r.v]
      [] OTHER          -> [d |-> d, v |-> 0]

wgt == wkind # "none"

\* A store set_value_(a, i, v) made while parsing the record at offset src
Store(a, i, v, src) == [a |-> a, i |-> i, v |-> v, src |-> src]

\* the filter decisions of the count-only op_: the record is skipped
count_drops(x, y) == (sl /\ x = y) \/ (~sym /\ ut /\ x > y)

\* the count-only op_ counts the record twice
count_twice(x, y) == sym /\ ~ut /\ x # y

\* the filter decisions of the setting op_: the record is skipped
set_drops(x, y) == (sl /\ x = y) \/ (~sym /\ ut /\ x > y)

\* the setting op_ swaps x and y before storing them
set_swaps(x, y) == sym /\ ut /\ x > y

\* the setting op_ stores the mirrored entry too
set_mirrors(x, y) == sym /\ ~ut /\ x # y

\* read_coord_entry_i_<...,true>::op_ (count only), any flags
RECURSIVE count_entry(_, _, _)
count_entry(d, end, cp) ==
    LET rx == read_int(d, end, LMod)
        d1 == move_to_next_int(rx.d, end)
        ry == read_int(d1, end, LMod)
        d2 == read_wgt_count(ry.d, end)
        d3 == move_to_next_int(move_to_eol(d2, end), end)
        x  == rx.v
        y  == ry.v
    IN  IF ~good(d2, end) THEN [d |-> d2, cp |-> cp]
        ELSE IF count_drops(x, y) THEN count_entry(d3, end, cp)
        ELSE [d |-> d3, cp |-> IF count_twice(x, y) THEN cp + 2 ELSE cp + 1]

\* the count-only op_ without flags as if it returned at the end of the line
count_entry_noflags_at_eol(d, end, cp) ==
    LET d1 == move_to_next_int(d, end)
    IN  IF ~good(d1, end) THEN [d |-> d1, cp |-> cp]
        ELSE [d |-> move_to_eol(d1, end), cp |-> cp + 1]

\* read_coord_entry_i_<L,O,S,false,false,false,...,true>::op_ (count only, no flags)
count_entry_noflags(d, end, cp) ==
    LET d1 == move_to_next_int(d, end)
        d2 == move_to_next_int(move_to_eol(d1, end), end)
    IN  IF ~good(d1, end) THEN [d |-> d1, cp |-> cp]
        ELSE [d |-> d2, cp |-> cp + 1]

\* read_coord_entry_i_<...,false>::op_ (setting), any flags.  e is the state
\* of the call: reader position d, coord_pos cp, max_row mr, max_col mc, the
\* stores made so far st and the offsets of the records parsed so far rec.
RECURSIVE set_entry(_, _)
set_entry(e, end) ==
    With(read_int(e.d, end, LMod), LAMBDA rx :
    With(read_int(move_to_next_int(rx.d, end), end, LMod), LAMBDA ry :
    With(read_wgt_set(ry.d, end), LAMBDA rw :
    With(move_to_next_int(move_to_eol(rw.d, end), end), LAMBDA d3 :
    LET st1 == IF wgt THEN Append(e.st, Store("w", e.cp, rw.v, e.d)) ELSE e.st
        rec1 == IF good(e.d, end) THEN Append(e.rec, e.d) ELSE e.rec
        swap == set_swaps(rx.v, ry.v)
        x  == IF swap THEN ry.v ELSE rx.v
        y  == IF swap THEN rx.v ELSE ry.v
        st2 == st1 \o <<Store("x", e.cp, x, e.d), Store("y", e.cp, y, e.d)>>
        st3 == IF set_mirrors(x, y)
               THEN (IF wgt THEN Append(st2, Store("w", e.cp + 1, rw.v, e.d)) ELSE st2)
                    \o <<Store("y", e.cp + 1, x, e.d), Store("x", e.cp + 1, y, e.d)>>
               ELSE st2
    IN  IF ~good(rw.d, end)
        THEN [e EXCEPT !.d = rw.d, !.st = st1, !.rec = rec1]
        ELSE IF set_drops(rx.v, ry.v)
        THEN With([e EXCEPT !.d = d3, !.st = st1, !.rec = rec1],
                  LAMBDA e1 : set_entry(e1, end))
        ELSE [d |-> d3,
              cp |-> IF set_mirrors(x, y) THEN e.cp + 2 ELSE e.cp + 1,
              mr |-> IF x > e.mr THEN x ELSE e.mr,
              mc |-> IF y > e.mc THEN y ELSE e.mc,
              st |-> st3, rec |-> rec1]))))

\* read_coord_entry_i_<L,O,S,false,false,false,...,false>::op_ (setting, no flags)
set_entry_noflags(e, end) ==
    With(read_int(e.d, end, LMod), LAMBDA rx :
    With(read_int(move_to_next_int(rx.d, end), end, LMod), LAMBDA ry :
    With(read_wgt_set(ry.d, end), LAMBDA rw :
    LET st1 == IF wgt THEN Append(e.st, Store("w", e.cp, rw.v, e.d)) ELSE e.st
        d3 == move_to_next_int(move_to_eol(rw.d, end), end)
    IN  IF ~good(rw.d, end)
        THEN [e EXCEPT !.d = rw.d, !.st = st1, !.rec = Append(e.rec, e.d)]
        ELSE [d |-> d3, cp |-> e.cp + 1,
              mr |-> IF rx.v > e.mr THEN rx.v ELSE e.mr,
              mc |-> IF ry.v > e.mc THEN ry.v ELSE e.mc,
              st |-> st1 \o <<Store("x", e.cp, rx.v, e.d), Store("y", e.cp, ry.v, e.d)>>,
              rec |-> Append(e.rec, e.d)])))

noflags == ~sym /\ ~ut /\ ~sl

\* COO::read_coord_entry_<true>
read_coord_entry_count(d, end, cp) ==
    IF noflags THEN count_entry_noflags(d, end, cp) ELSE count_entry(d, end, cp)

\* COO::read_coord_entry_<false>
read_coord_entry_set(e, end) ==
    IF noflags THEN set_entry_noflags(e, end) ELSE set_entry(e, end)

-----------------------------------------------------------------------------
(* The generated inputs: text edge lists of at most MaxLines lines, each   *)
(* a record "x y [w]", a comment line or a blank line.                     *)

RecPairs == {<<1, 2>>, <<2, 1>>, <<1, 1>>}

\* the values an allocated and not yet written array cell may hold
Garbage == {0, 7}

WKinds == {"none", "uint", "int", "fp"}

LineKinds ==
    {[k |-> "rec", x |-> p[1], y |-> p[2]] : p \in RecPairs}
        \cup {[k |-> "cmt", x |-> 0, y |-> 0], [k |-> "blank", x |-> 0, y |-> 0]}

LineSeqs == UNION {[1..n -> LineKinds] : n \in 0..MaxLines}

DigitChar(v) ==
    CASE v = 0 -> "0" [] v = 1 -> "1" [] v = 2 -> "2" [] v = 3 -> "3"
      [] v = 4 -> "4" [] v = 5 -> "5" [] v = 6 -> "6" [] v = 7 -> "7"
      [] v = 8 -> "8" [] v = 9 -> "9"

RECURSIVE FmtNat(_)
FmtNat(v) == IF v < 10 THEN <<DigitChar(v)>>
             ELSE Append(FmtNat(v \div 10), DigitChar(v % 10))

\* the weight of the record on line i, as the weight type stores it
\* (a floating point weight i.5 in tenths)
WeightOf(wk, i) ==
    CASE wk = "uint" -> i
      [] wk = "int"  -> 0 - i
      [] wk = "fp"   -> 10 * i + 5
      [] OTHER       -> 0

WeightText(wk, i) ==
    CASE wk = "uint" -> <<" ">> \o FmtNat(i)
      [] wk = "int"  -> <<" ", "-">> \o FmtNat(i)
      [] wk = "fp"   -> <<" ">> \o FmtNat(i) \o <<".", "5">>
      [] OTHER       -> <<>>

LineText(l, wk, i) ==
    CASE l.k = "rec" -> FmtNat(l.x) \o <<" ">> \o FmtNat(l.y) \o WeightText(wk, i)
      [] l.k = "cmt" -> <<"#", "3">>
      [] OTHER       -> <<>>

\* the bytes of the first n lines
RECURSIVE Render(_, _, _, _)
Render(ls, wk, fnl, n) ==
    IF n = 0 THEN <<>>
    ELSE Render(ls, wk, fnl, n - 1) \o LineText(ls[n], wk, n)
            \o (IF n < Len(ls) \/ fnl THEN <<NL>> ELSE <<>>)

\* the byte offset at which line i starts
LineOff(ls, wk, i) == Len(Render(ls, wk, TRUE, i - 1))

-----------------------------------------------------------------------------
(* The text constructor: File::File, then COO::read_el_ on num_threads     *)
(* OpenMP threads.                                                          *)

Threads == 0..(num_threads - 1)

\* detail::allocate_mem_: an array of n cells, none of them written
NewArray(n, g) == [i \in 0..(n - 1) |-> g]

NoArray == [i \in {} |-> 0]

\* the text writer not in use
TwIdle ==
    /\ tw_pc = "off"
    /\ tw_at = <<>>
    /\ pos_offsets = <<>>
    /\ out = <<>>
    /\ coo2 = <<>>
    /\ tw_wr = {}

\* the conversion from a CSR not in use
CvIdle ==
    /\ cv_pc = "off"
    /\ csr = <<>>
    /\ cv_rows = {}
    /\ cv_alloc = FALSE
    /\ cv_st = {}

\* the MatrixMarket reader not in use
MmIdle ==
    /\ mm_pc = "off"
    /\ mm_in = <<>>
    /\ mm_d = 0
    /\ mm_hdr = <<>>
    /\ mm_err = "none"
    /\ mm_alloc = FALSE
    /\ mm_first = <<>>

\* no file has been altered
AltIdle ==
    /\ alt_kind = <<>>
    /\ alt_beyond = 0

\* guess_file_type not in use
GfIdle ==
    /\ gf_pc = "off"
    /\ gf_data = <<>>
    /\ gf_fn = <<>>
    /\ gf_type = "none"

\* split_cvs_write not in use
SpIdle ==
    /\ sp_pc = "off"
    /\ sp_in = <<>>
    /\ sp_start = 0
    /\ sp_fcnt = 0
    /\ sp_at = <<>>
    /\ sp_offsets = <<>>
    /\ sp_f = <<>>
    /\ sp_files = <<>>

\* no scanning primitive called on its own
ScIdle ==
    /\ sc_pc = "off"
    /\ sc_prim = "none"
    /\ sc_d = 0
    /\ sc_end = 0
    /\ sc_alt = NUL
    /\ sc_r1 = 0
    /\ sc_r2 = 0

\* no value formatted on its own
FmIdle ==
    /\ fm_pc = "off"
    /\ fm_v = 0
    /\ fm_size = 0
    /\ fm_out = <<>>

\* no parallel copy called on its own
CpIdle ==
    /\ cp_pc = "off"
    /\ cp_in = <<>>
    /\ cp_done = {}
    /\ cp_bytes = {}
    /\ cp_fp = 0

\* none of the operations modelled last in use
\* no COO::read_ called on its own
RdIdle ==
    /\ rd_pc = "off"
    /\ rd_in = <<>>
    /\ rd_used = "none"
    /\ rd_call = "none"

\* no loop of split_cvs_write run on its own
LpIdle ==
    /\ lp_pc = "off"
    /\ lp_in = <<>>
    /\ lp_start = <<>>
    /\ lp_end = <<>>

RestIdle == CpIdle /\ RdIdle /\ LpIdle

ExtIdle ==
    TwIdle /\ CvIdle /\ MmIdle /\ AltIdle /\ GfIdle /\ SpIdle /\ ScIdle /\ FmIdle /\ RestIdle

BinIdle ==
    /\ bpc = "off"
    /\ src_coo = <<>>
    /\ bfile = <<>>
    /\ dst_coo = <<>>
    /\ bthreads = 0

Init ==
    /\ lines \in LineSeqs
    /\ finalNL \in (IF lines = <<>> THEN {TRUE} ELSE BOOLEAN)
    /\ sym \in BOOLEAN
    /\ ut \in BOOLEAN
    /\ sl \in BOOLEAN
    /\ wkind \in WKinds
    /\ num_threads \in 1..MaxThreads
    /\ buf = Render(lines, wkind, finalNL, Len(lines))
    /\ pc = "open"
    /\ wpc = [t \in Threads |-> "p1"]
    /\ rs = [t \in Threads |-> [d |-> 0, end |-> 0]]
    /\ nl_offsets = [t \in Threads |-> 0]
    /\ m_ = 0
    /\ x_ = NoArray
    /\ y_ = NoArray
    /\ w_ = NoArray
    /\ nrows_ = 0
    /\ ncols_ = 0
    /\ n_ = 0
    /\ rs_p2 = [t \in Threads |-> 0]
    /\ coord_pos = [t \in Threads |-> 0]
    /\ max_row = [t \in Threads |-> 0]
    /\ max_col = [t \in Threads |-> 0]
    /\ org = NoArray
    /\ wr_x = NoArray
    /\ wr_y = NoArray
    /\ wr_w = NoArray
    /\ oob = {}
    /\ seen = [t \in Threads |-> <<>>]
    /\ BinIdle
    /\ ExtIdle

\* File::File: the size of the file is found and the file is mapped; seek(0)
\* throws for a file of size 0
Open ==
    /\ pc = "open"
    /\ pc' = IF Len(buf) = 0 THEN "error" ELSE "run"
    /\ UNCHANGED <<lines, finalNL, buf, sym, ut, sl, wkind, num_threads, wpc, rs,
                   nl_offsets, m_, x_, y_, w_, nrows_, ncols_, n_, rs_p2,
                   coord_pos, max_row, max_col, org, wr_x, wr_y, wr_w, oob, seen>>
    /\ UNCHANGED bin_vars
    /\ UNCHANGED ext_vars

\* the nominal boundary tid*size/num_threads of the reader r (r.d = 0)
Nominal(t) == (t * Len(buf)) \div num_threads

\* re after "re.move_to_eol(); re.move_to_next_int();"
RangeEnd(t) ==
    move_to_next_int(move_to_eol(Nominal(t + 1), Len(buf)), Len(buf))

\* RangeStart without the move to the end of the line the boundary falls in
RangeStart_no_eol(t) ==
    IF t # 0
    THEN move_to_next_int(Nominal(t), Len(buf))
    ELSE move_to_first_int(0, Len(buf))

\* rs after the moves off overlapping entries
RangeStart(t) ==
    IF t # 0
    THEN move_to_next_int(move_to_eol(Nominal(t), Len(buf)), Len(buf))
    ELSE move_to_first_int(0, Len(buf))

\* FileReader::smaller_end
smaller_end(end, re_d) == IF end > re_d THEN re_d ELSE end

\* the Pass 1 loop: while (rs_p1.good()) read_coord_entry_<true>(...)
RECURSIVE count_loop(_, _, _)
count_loop(d, end, cp) ==
    IF good(d, end)
    THEN LET c == read_coord_entry_count(d, end, cp) IN count_loop(c.d, end, c.cp)
    ELSE cp

\* Thread t finds its range, runs Pass 1 and stores its count
Pass1(t) ==
    /\ pc = "run"
    /\ wpc[t] = "p1"
    /\ \E end \in {smaller_end(Len(buf), RangeEnd(t))}, d \in {RangeStart(t)} :
           /\ rs' = [rs EXCEPT ![t] = [d |-> d, end |-> end]]
           /\ nl_offsets' = [nl_offsets EXCEPT ![t] = count_loop(d, end, 0)]
    /\ wpc' = [wpc EXCEPT ![t] = "bar1"]
    /\ UNCHANGED <<lines, finalNL, buf, sym, ut, sl, wkind, num_threads, pc,
                   m_, x_, y_, w_, nrows_, ncols_, n_, rs_p2,
                   coord_pos, max_row, max_col, org, wr_x, wr_y, wr_w, oob, seen>>
    /\ UNCHANGED bin_vars
    /\ UNCHANGED ext_vars

\* the single block's prefix sum without the sums before it
PrefixSum_last(f, t) == f[t]

\* the inclusive prefix sum of the single block
RECURSIVE PrefixSum(_, _)
PrefixSum(f, t) == IF t = 0 THEN f[0] ELSE PrefixSum(f, t - 1) + f[t]

\* the single block between the two barriers: prefix sum, m_, allocate_()
Single ==
    /\ pc = "run"
    /\ \A t \in Threads : wpc[t] = "bar1"
    /\ LET sums == [t \in Threads |-> PrefixSum(nl_offsets, t)]
           m == sums[num_threads - 1]
       IN  /\ nl_offsets' = sums
           /\ m_' = m
           /\ \E g \in Garbage :
                /\ x_' = NewArray(m, g)
                /\ y_' = NewArray(m, g)
                /\ w_' = IF wgt THEN NewArray(m, g) ELSE NoArray
           /\ org' = NewArray(m, 0 - 1)
           /\ wr_x' = NewArray(m, {})
           /\ wr_y' = NewArray(m, {})
           /\ wr_w' = NewArray(m, {})
    /\ wpc' = [t \in Threads |-> "bar2"]
    /\ UNCHANGED <<lines, finalNL, buf, sym, ut, sl, wkind, num_threads, pc, rs,
                   nrows_, ncols_, n_, rs_p2, coord_pos, max_row, max_col, oob, seen>>
    /\ UNCHANGED bin_vars
    /\ UNCHANGED ext_vars

\* detail::set_value_ for the stores st made into array a, in program order
RECURSIVE store_all(_, _, _)
store_all(arr, st, a) ==
    IF st = <<>> THEN arr
    ELSE LET o == Head(st)
         IN  store_all(IF o.a = a /\ o.i \in DOMAIN arr
                       THEN [arr EXCEPT ![o.i] = o.v] ELSE arr,
                       Tail(st), a)

\* the indices of array a that the stores st write
Written(st, a) == {st[j].i : j \in {k \in DOMAIN st : st[k].a = a}}

\* the offset of the record of the last store of st into x_[i]
LastSrc(st, i) ==
    LET js == {j \in DOMAIN st : st[j].a = "x" /\ st[j].i = i}
    IN  st[CHOOSE j \in js : \A k \in js : k <= j].src

\* StartOffset with the prefix sum ignored
StartOffset_zero(t) == 0

\* where thread t's Pass 2 starts writing
StartOffset(t) == IF t > 0 THEN nl_offsets[t - 1] ELSE 0

\* One iteration of thread t's Pass 2 loop (the first one follows the
\* copy of rs and the read of the start offset); the thread leaves the loop
\* when its reader is no longer good
Pass2(t) ==
    /\ pc = "run"
    /\ wpc[t] \in {"bar2", "p2"}
    /\ LET first == wpc[t] = "bar2"
           e0 == [d |-> IF first THEN rs[t].d ELSE rs_p2[t],
                  cp |-> IF first THEN StartOffset(t) ELSE coord_pos[t],
                  mr |-> max_row[t], mc |-> max_col[t], st |-> <<>>, rec |-> <<>>]
           end == rs[t].end
       IN  \E e1 \in {IF good(e0.d, end) THEN read_coord_entry_set(e0, end) ELSE e0} :
           /\ rs_p2' = [rs_p2 EXCEPT ![t] = e1.d]
           /\ coord_pos' = [coord_pos EXCEPT ![t] = e1.cp]
           /\ max_row' = [max_row EXCEPT ![t] = e1.mr]
           /\ max_col' = [max_col EXCEPT ![t] = e1.mc]
           /\ x_' = store_all(x_, e1.st, "x")
           /\ y_' = store_all(y_, e1.st, "y")
           /\ w_' = store_all(w_, e1.st, "w")
           /\ org' = [i \in DOMAIN org |->
                        IF i \in Written(e1.st, "x") THEN LastSrc(e1.st, i) ELSE org[i]]
           /\ wr_x' = [i \in DOMAIN wr_x |->
                        IF i \in Written(e1.st, "x") THEN wr_x[i] \cup {t} ELSE wr_x[i]]
           /\ wr_y' = [i \in DOMAIN wr_y |->
                        IF i \in Written(e1.st, "y") THEN wr_y[i] \cup {t} ELSE wr_y[i]]
           /\ wr_w' = [i \in DOMAIN wr_w |->
                        IF i \in Written(e1.st, "w") THEN wr_w[i] \cup {t} ELSE wr_w[i]]
           /\ oob' = oob \cup {[t |-> t, a |-> e1.st[j].a, i |-> e1.st[j].i] :
                                j \in {k \in DOMAIN e1.st : e1.st[k].i >= m_}}
           /\ seen' = [seen EXCEPT ![t] = seen[t] \o e1.rec]
           /\ wpc' = [wpc EXCEPT ![t] = IF good(e1.d, end) THEN "p2" ELSE "fin"]
    /\ UNCHANGED <<lines, finalNL, buf, sym, ut, sl, wkind, num_threads, pc, rs,
                   nl_offsets, m_, nrows_, ncols_, n_>>
    /\ UNCHANGED bin_vars
    /\ UNCHANGED ext_vars

\* the max reduction over the threads' copies of a reduction variable
RECURSIVE ReduceMax(_, _)
ReduceMax(f, t) == IF t = 0 THEN f[0] ELSE Max(ReduceMax(f, t - 1), f[t])

\* the end of the parallel region and the label counts set after it
Finish ==
    /\ pc = "run"
    /\ \A t \in Threads : wpc[t] = "fin"
    /\ LET nr == (ReduceMax(max_row, num_threads - 1) + 1) % LMod
           nc == (ReduceMax(max_col, num_threads - 1) + 1) % LMod
       IN  /\ nrows_' = nr
           /\ ncols_' = nc
           /\ n_' = IF nr > nc THEN nr ELSE nc
    /\ pc' = "done"
    /\ UNCHANGED <<lines, finalNL, buf, sym, ut, sl, wkind, num_threads, wpc, rs,
                   nl_offsets, m_, x_, y_, w_, rs_p2, coord_pos, max_row, max_col,
                   org, wr_x, wr_y, wr_w, oob, seen>>
    /\ UNCHANGED bin_vars
    /\ UNCHANGED ext_vars

Next ==
    \/ Open
    \/ \E t \in Threads : Pass1(t)
    \/ Single
    \/ \E t \in Threads : Pass2(t)
    \/ Finish

Spec == Init /\ [][Next]_vars

-----------------------------------------------------------------------------
(* Vocabulary of the properties *)

Done == pc = "done"

\* the lines of the input that are records
RecLines == {i \in DOMAIN lines : lines[i].k = "rec"}

\* line i ends with a newline
Terminated(i) == i < Len(lines) \/ finalNL

\* the byte offset of line i of the input
OffsetOf(i) == LineOff(lines, wkind, i)

\* the structural-predicate table: the entries to store for the record (x, y)
TableEntries(x, y) ==
    IF sl /\ x = y THEN <<>>
    ELSE IF ~sym /\ ut /\ x > y THEN <<>>
    ELSE IF sym /\ ut THEN <<<<Min(x, y), Max(x, y)>>>>
    ELSE IF sym /\ ~ut /\ x # y THEN <<<<x, y>>, <<y, x>>>>
    ELSE <<<<x, y>>>>

\* the elements of a finite set of integers in ascending order
RECURSIVE Ascending(_)
Ascending(S) ==
    IF S = {} THEN <<>>
    ELSE LET lo == CHOOSE a \in S : \A b \in S : a <= b
         IN  <<lo>> \o Ascending(S \ {lo})

\* the indices that hold an entry of the record at byte offset o
IndicesOf(o) == {i \in DOMAIN org : org[i] = o}

\* the entries stored for the record at byte offset o, by ascending index
StoredFor(o) ==
    LET idx == Ascending(IndicesOf(o))
    IN  [j \in DOMAIN idx |-> <<x_[idx[j]], y_[idx[j]]>>]

\* C1: once the text constructor is done, the entries stored for every
\* record (x, y) of the input are exactly those the structural-predicate
\* table gives for it, under every flag combination.
C1_FilterTable ==
    Done => \A i \in RecLines :
                StoredFor(OffsetOf(i)) = TableEntries(lines[i].x, lines[i].y)

\* the part of C1 that holds: the entries stored for every record that a
\* newline follows are those of the structural-predicate table
C1_FilterTableOfTerminated ==
    Done => \A i \in RecLines :
                Terminated(i) =>
                    StoredFor(OffsetOf(i)) = TableEntries(lines[i].x, lines[i].y)

\* the number of entries thread t's Pass 2 wrote
WrittenBy(t) == coord_pos[t] - StartOffset(t)

\* the count thread t's Pass 1 produced
CountedBy(t) == nl_offsets[t] - StartOffset(t)

\* C2: the count of every thread's Pass 1 equals the number of entries its
\* Pass 2 writes, so that every index below m of X and Y (and of W with WGT)
\* holds a written entry.
C2_CountEqualsWritten ==
    Done => /\ \A t \in Threads : CountedBy(t) = WrittenBy(t)
            /\ \A i \in 0..(m_ - 1) :
                  /\ wr_x[i] # {}
                  /\ wr_y[i] # {}
                  /\ wgt => wr_w[i] # {}

\* every record of the input is a newline-terminated line
AllTerminated == \A i \in RecLines : Terminated(i)

\* the byte offset of the first record, the region's end if there is none
FirstRecordOffset ==
    IF RecLines = {} THEN Len(buf)
    ELSE OffsetOf(CHOOSE i \in RecLines : \A j \in RecLines : i <= j)

\* how many times Pass 2 parsed the record at byte offset o
TimesParsed(o) ==
    Cardinality({p \in Threads \X (0..Len(buf)) :
                    p[2] \in DOMAIN seen[p[1]] /\ seen[p[1]][p[2]] = o})

\* C3: for inputs whose records are newline-terminated, the start of thread t
\* is the end of thread t-1, thread 0 starts at the first record, the last
\* thread ends at the region's end, every record lies in exactly one thread's
\* range and is parsed exactly once.
C3_RangesPartition ==
    (AllTerminated /\ pc \in {"run", "done"} /\ \A t \in Threads : wpc[t] # "p1") =>
        /\ \A t \in Threads : t > 0 => rs[t].d = rs[t - 1].end
        /\ rs[0].d = FirstRecordOffset
        /\ rs[num_threads - 1].end = Len(buf)
        /\ \A i \in RecLines :
              Cardinality({t \in Threads :
                  rs[t].d <= OffsetOf(i) /\ OffsetOf(i) < rs[t].end}) = 1
        /\ Done => \A i \in RecLines : TimesParsed(OffsetOf(i)) = 1

\* a finished read on two or more threads where the newline of a record lies
\* exactly on a nominal boundary
C3_Witness ==
    /\ Done
    /\ AllTerminated
    /\ num_threads >= 2
    /\ m_ >= 1
    /\ \E t \in Threads, i \in RecLines :
          /\ t > 0
          /\ Nominal(t) = OffsetOf(i) + Len(LineText(lines[i], wkind, i))
          /\ Peek(Nominal(t)) = NL

\* index i lies in thread t's slice [s_t, s_{t+1})
InSlice(t, i) == StartOffset(t) <= i /\ i < nl_offsets[t]

\* C4: during Pass 2 every thread stores into X, Y and W only at indices of
\* its own slice, so that no index is written by two threads.
C4_OwnSliceOnly ==
    /\ \A i \in DOMAIN wr_x :
          /\ \A t \in wr_x[i] \cup wr_y[i] \cup wr_w[i] : InSlice(t, i)
          /\ Cardinality(wr_x[i]) <= 1
          /\ Cardinality(wr_y[i]) <= 1
          /\ Cardinality(wr_w[i]) <= 1
    /\ oob = {}

\* C22: during Pass 2 every store into X, Y or W is made at an index below
\* m, for every input, flag combination and weight type, the weight store of
\* a record the SL / UT filter drops and that of a final record included.
C22_StoresBelowM ==
    \A s \in oob : s.i < m_

\* the weight of the record at byte offset o
WeightAt(o) == WeightOf(wkind, CHOOSE i \in RecLines : OffsetOf(i) = o)

\* C23: with weights, once the constructor is done the weight at every index
\* is the weight of the record that produced the pair at that index, records
\* dropped before it or not, so that the two entries of a record under
\* SYM without UT carry the same weight.
C23_WeightOfSameRecord ==
    (Done /\ wgt) =>
        \A i \in DOMAIN org :
            (\E l \in RecLines : OffsetOf(l) = org[i]) => w_[i] = WeightAt(org[i])

\* C23 holds on one thread
C23_WeightOfSameRecordOneThread ==
    num_threads = 1 => C23_WeightOfSameRecord

\* the count worker t's Pass 1 stored in nl_offsets[t]
Pass1Count(t) == count_loop(rs[t].d, rs[t].end, 0)

\* the sum of the Pass 1 counts of the workers 0..t
RECURSIVE CountSum(_)
CountSum(t) == IF t < 0 THEN 0 ELSE CountSum(t - 1) + Pass1Count(t)

\* worker t is past the barrier that follows the single block
PastSingle(t) == pc = "done" \/ (pc = "run" /\ wpc[t] \in {"bar2", "p2", "fin"})

\* a step that is the single block: every worker waits at the first barrier
\* before it and at the second after it
SingleStep ==
    /\ pc = "run"
    /\ \A t \in Threads : wpc[t] = "bar1"
    /\ \A t \in Threads : wpc'[t] = "bar2"

\* C24: the prefix sum and the allocation are executed once, by the single
\* block, only after every worker has stored its Pass 1 count; no worker reads
\* its start offset or stores in Pass 2 before the allocation is complete;
\* the start offset of worker t is the sum of the counts of the workers
\* before it, and m is the sum of all the counts.
C24_SingleBetweenBarriers ==
    /\ [](\A t \in Threads : PastSingle(t) =>
              /\ \A u \in Threads : PastSingle(u)
              /\ DOMAIN x_ = 0..(m_ - 1)
              /\ DOMAIN y_ = 0..(m_ - 1)
              /\ StartOffset(t) = CountSum(t - 1)
              /\ m_ = CountSum(num_threads - 1))
    /\ [][(m_' # m_ \/ DOMAIN x_' # DOMAIN x_ \/ DOMAIN y_' # DOMAIN y_
              \/ DOMAIN w_' # DOMAIN w_
              \/ \E t \in Threads : wpc[t] = "bar1" /\ nl_offsets'[t] # nl_offsets[t])
            => SingleStep]_vars
    /\ [][(x_' # x_ \/ y_' # y_ \/ w_' # w_ \/ coord_pos' # coord_pos \/ oob' # oob)
            => (SingleStep \/ \A t \in Threads : PastSingle(t))]_vars

\* a worker other than worker 0 that counted one entry and has stored it at
\* its start offset 1, the count of the workers before it, while another
\* worker is yet to start its Pass 2
C24_Witness ==
    /\ pc = "run"
    /\ \A t \in Threads : PastSingle(t)
    /\ \E t \in Threads \ {0} :
          /\ Pass1Count(t) = 1
          /\ StartOffset(t) = 1
          /\ wr_x[1] = {t}
          /\ \E u \in Threads : wpc[u] = "bar2"

\* the Pass 2 loop of a read on one thread
\* the setting loop of one thread: the entry state when the reader is no
\* longer good (each iteration's state is a value before the next begins)
RECURSIVE seq_set_loop(_, _)
seq_set_loop(e, end) ==
    IF good(e.d, end)
    THEN With(read_coord_entry_set(e, end), LAMBDA e1 : seq_set_loop(e1, end))
    ELSE e

\* the COO after read_el_ on one thread: m the count of the first pass, e
\* the state after the second pass, the allocated cells holding g before
SeqResult(m, e, g) ==
    [m |-> m,
     x |-> store_all(NewArray(m, g), e.st, "x"),
     y |-> store_all(NewArray(m, g), e.st, "y"),
     w |-> IF wgt THEN store_all(NewArray(m, g), e.st, "w") ELSE NoArray,
     nrows |-> (e.mr + 1) % LMod,
     ncols |-> (e.mc + 1) % LMod,
     n |-> (Max(e.mr, e.mc) + 1) % LMod]

\* the two passes of read_el_ on one thread over the records from d0 on
SeqPasses(d0, end, g) ==
    With(count_loop(d0, end, 0), LAMBDA m :
    With(seq_set_loop([d |-> d0, cp |-> 0, mr |-> 0, mc |-> 0,
                       st |-> <<>>, rec |-> <<>>], end), LAMBDA e :
    SeqResult(m, e, g)))

\* what read_el_ on one thread produces from the reader position start on,
\* the allocated cells holding g
SeqReadFrom(start, g) == SeqPasses(move_to_first_int(start, Len(buf)), Len(buf), g)

\* what read_el_ on one thread produces, the allocated cells holding g
SeqRead(g) == SeqReadFrom(0, g)

\* what the read has produced
Result ==
    [m |-> m_, x |-> x_, y |-> y_, w |-> w_,
     nrows |-> nrows_, ncols |-> ncols_, n |-> n_]

\* C5: for a fixed input and fixed flags the output is the same for every
\* number of threads: what a read on num_threads threads produces is what a
\* read on one thread produces.  Stated for the inputs whose records all end
\* with a newline, where both reads store every cell below m of X and Y.
C5_SameForEveryThreadCount ==
    (Done /\ AllTerminated) => \E g \in Garbage : Result = SeqRead(g)

\* C6: entries appear in ascending byte offset of their record: an entry of
\* an earlier record has a smaller index than an entry of a later record.
C6_InputOrder ==
    Done => \A i, j \in DOMAIN org :
                (org[i] >= 0 /\ org[j] >= 0 /\ org[i] < org[j]) => i < j

\* entries of two records that two different threads stored
C6_Witness ==
    /\ Done
    /\ \E i, j \in DOMAIN org :
          /\ org[i] >= 0 /\ org[j] >= 0 /\ org[i] < org[j]
          /\ wr_x[i] # {} /\ wr_x[j] # {}
          /\ wr_x[i] \cap wr_x[j] = {}

\* C7: max(X) < nrows, max(Y) < ncols and n = max(nrows, ncols), under
\* every flag combination.
C7_LabelCounts ==
    Done => /\ \A i \in DOMAIN x_ : wr_x[i] # {} => x_[i] < nrows_
            /\ \A i \in DOMAIN y_ : wr_y[i] # {} => y_[i] < ncols_
            /\ n_ = Max(nrows_, ncols_)

\* the last line of the input is a record with no newline after it
FinalUnterminated ==
    /\ lines # <<>>
    /\ ~finalNL
    /\ lines[Len(lines)].k = "rec"

\* C8: a final record that no newline follows is still parsed: its entries
\* are stored (with its weight) and counted in m.
C8_FinalRecordParsed ==
    (Done /\ FinalUnterminated) =>
        LET i == Len(lines)
            want == TableEntries(lines[i].x, lines[i].y)
        IN  /\ StoredFor(OffsetOf(i)) = want
            /\ Cardinality(IndicesOf(OffsetOf(i))) = Len(want)
            /\ wgt => \A j \in IndicesOf(OffsetOf(i)) : w_[j] = WeightOf(wkind, i)

\* C9: constructing from an input with no records (an empty file, or only
\* comment lines) succeeds with m = 0 and n = 0.
C9_NoRecords ==
    (\A i \in DOMAIN lines : lines[i].k = "cmt") =>
        /\ pc # "error"
        /\ Done => (m_ = 0 /\ n_ = 0)

-----------------------------------------------------------------------------
(* The binary codec: COO::save writes a COO to a file of bytes (0..255),  *)
(* held as a function of the byte offsets 0..size-1, and COO::read_bin_     *)
(* builds a COO from it.                                                    *)

\* the largest number of edges of the COO that is saved
MaxEdges == 2

\* sizeof(L), sizeof(O) and sizeof(W) of the instantiation: uint16_t labels,
\* uint32_t edge counts, int16_t weights
Sizeof == [L |-> 2, O |-> 4, W |-> 2]

\* COO::coo_file_header, "PIGO-COO-v2", as bytes
coo_file_header == <<80, 73, 71, 79, 45, 67, 79, 79, 45, 118, 50>>

RECURSIVE Pow256(_)
Pow256(k) == IF k <= 0 THEN 1 ELSE 256 * Pow256(k - 1)

\* the object representation of the value v of a type of n bytes (little
\* endian, two's complement)
ToBytes(v, n) == [j \in 1..n |-> (v \div Pow256(j - 1)) % 256]

RECURSIVE UnsignedOf(_, _)
UnsignedOf(bs, n) == IF n = 0 THEN 0 ELSE UnsignedOf(bs, n - 1) + bs[n] * Pow256(n - 1)

\* the value of an unsigned type held in the bytes bs
FromBytes(bs) == UnsignedOf(bs, Len(bs))

\* the value of a signed type held in the bytes bs
SignedFromBytes(bs) ==
    LET u == FromBytes(bs)
    IN  IF 2 * u >= Pow256(Len(bs)) THEN u - Pow256(Len(bs)) ELSE u

\* pigo::write<T>: *(T*)fp = val; fp += sizeof(T).  f is [data, fp].
write(f, bs) ==
    [data |-> [i \in DOMAIN f.data |->
                  IF f.fp <= i /\ i < f.fp + Len(bs) THEN bs[i - f.fp + 1] ELSE f.data[i]],
     fp |-> f.fp + Len(bs)]

\* pigo::read<T>: the sizeof(T) bytes at fp
read(f, n) == [j \in 1..n |-> f.data[f.fp + j - 1]]

\* my_data of thread t in parallel_write and parallel_read, with the last
\* thread given none of the remaining data
my_data_no_rest(t, v_size, nt) == v_size \div nt

\* my_data of thread t in parallel_write and parallel_read
my_data(t, v_size, nt) ==
    IF t = nt - 1 THEN v_size - (v_size \div nt) * (nt - 1) ELSE v_size \div nt

\* start_pos as if every thread before t copied as much as t does
start_pos_by_data(t, v_size, nt) == t * my_data(t, v_size, nt)

\* start_pos of thread t in parallel_write and parallel_read
start_pos(t, v_size, nt) == t * (v_size \div nt)

\* whether some thread's memcpy copies the byte at offset i of the v_size bytes
Copied(i, v_size, nt) ==
    \E t \in 0..(nt - 1) :
        start_pos(t, v_size, nt) <= i
            /\ i < start_pos(t, v_size, nt) + my_data(t, v_size, nt)

\* pigo::parallel_write: every thread copies its part of v to fp, then fp += v_size
parallel_write(f, v, nt) ==
    [data |-> [i \in DOMAIN f.data |->
                  IF Copied(i - f.fp, Len(v), nt) THEN v[i - f.fp + 1] ELSE f.data[i]],
     fp |-> f.fp + Len(v)]

\* pigo::parallel_read: every thread copies its part of the file at fp into
\* v (whose cells hold g before), then fp += v_size
parallel_read(f, v_size, nt, g) ==
    [j \in 1..v_size |-> IF Copied(j - 1, v_size, nt) THEN f.data[f.fp + j - 1] ELSE g]

\* detail::get_raw_data_: the bytes of an array of m elements of n bytes each
RECURSIVE RawData(_, _, _)
RawData(arr, m, n) ==
    IF m = 0 THEN <<>> ELSE RawData(arr, m - 1, n) \o ToBytes(arr[m - 1], n)

\* element i of the array whose bytes are raw, each element n bytes
ElementBytes(raw, i, n) == [j \in 1..n |-> raw[i * n + j]]

\* detail::weight_size_
weight_size_(has_wgt, m) == IF has_wgt THEN Sizeof.W * m ELSE 0

\* the size of the file that save creates
out_size(c) ==
    Len(coo_file_header) + 2 + Sizeof.L * 3 + Sizeof.O
        + Sizeof.L * c.m * 2 + weight_size_(c.wgt, c.m)

\* File::File in WRITE mode: a file of max_size bytes, the last one written by fputc(1)
NewFile(max_size) ==
    [data |-> [i \in 0..(max_size - 1) |-> IF i = max_size - 1 THEN 1 ELSE 0], fp |-> 0]

\* COO::save: the file after the header, the widths, the sizes and the arrays
\* are written
save(c, nt) ==
    LET f0 == NewFile(out_size(c))
        f1 == write(f0, coo_file_header)
        f2 == write(write(f1, ToBytes(Sizeof.L, 1)), ToBytes(Sizeof.O, 1))
        f3 == write(write(write(write(f2, ToBytes(c.nrows, Sizeof.L)),
                    ToBytes(c.ncols, Sizeof.L)), ToBytes(c.n, Sizeof.L)),
                    ToBytes(c.m, Sizeof.O))
        f4 == parallel_write(f3, RawData(c.x, c.m, Sizeof.L), nt)
        f5 == parallel_write(f4, RawData(c.y, c.m, Sizeof.L), nt)
    IN  IF weight_size_(c.wgt, c.m) > 0
        THEN parallel_write(f5, RawData(c.w, c.m, Sizeof.W), nt)
        ELSE f5

\* FileReader::at_str at position d of a reader that ends at end
at_str(data, d, end, str) ==
    IF d + Len(str) >= end THEN FALSE
    ELSE \A j \in 1..Len(str) : data[d + j - 1] = str[j]

\* the width test of read_bin_ with the test of O_size left out
width_error_L_only(L_size, O_size) == L_size # Sizeof.L

\* whether read_bin_ throws on the two width bytes
width_error(L_size, O_size) == L_size # Sizeof.L \/ O_size # Sizeof.O

\* COO::read_bin_ on the memory data, the file being its first end bytes,
\* with the template flag has_wgt: the COO built, or "error" when the header
\* or the widths do not match
read_bin_(data, end, has_wgt, nt, g) ==
    IF ~at_str(data, 0, end, coo_file_header) THEN [err |-> "header"]
    ELSE
    LET h == Len(coo_file_header)
        f(at) == [data |-> data, fp |-> at]
        L_size == FromBytes(read(f(h), 1))
        O_size == FromBytes(read(f(h + 1), 1))
        p == h + 2
        nrows == FromBytes(read(f(p), Sizeof.L))
        ncols == FromBytes(read(f(p + Sizeof.L), Sizeof.L))
        n == FromBytes(read(f(p + 2 * Sizeof.L), Sizeof.L))
        m == FromBytes(read(f(p + 3 * Sizeof.L), Sizeof.O))
        q == p + 3 * Sizeof.L + Sizeof.O
        vx == parallel_read(f(q), Sizeof.L * m, nt, g)
        vy == parallel_read(f(q + Sizeof.L * m), Sizeof.L * m, nt, g)
        vw == parallel_read(f(q + 2 * Sizeof.L * m), weight_size_(has_wgt, m), nt, g)
    IN  IF width_error(L_size, O_size) THEN [err |-> "width"]
        ELSE [err |-> "none", wgt |-> has_wgt,
              nrows |-> nrows, ncols |-> ncols, n |-> n, m |-> m,
              x |-> [i \in 0..(m - 1) |-> FromBytes(ElementBytes(vx, i, Sizeof.L))],
              y |-> [i \in 0..(m - 1) |-> FromBytes(ElementBytes(vy, i, Sizeof.L))],
              w |-> IF weight_size_(has_wgt, m) > 0
                    THEN [i \in 0..(m - 1) |-> SignedFromBytes(ElementBytes(vw, i, Sizeof.W))]
                    ELSE NoArray]

\* the label and weight values of the COOs that are saved
LabelValues == {0, 1, 258}

WeightValues == {0 - 2, 5}

CountValues == {1, 259}

\* the COOs that are saved: any arrays of m <= MaxEdges edges, weighted or not
COOs ==
    UNION {
        {[err |-> "none", wgt |-> hw, nrows |-> nr, ncols |-> nc,
          n |-> Max(nr, nc), m |-> m, x |-> x, y |-> y, w |-> w] :
            x \in [0..(m - 1) -> LabelValues],
            y \in [0..(m - 1) -> LabelValues],
            w \in (IF hw /\ m > 0 THEN [0..(m - 1) -> WeightValues] ELSE {NoArray}),
            nr \in CountValues, nc \in CountValues} :
        hw \in BOOLEAN, m \in 0..MaxEdges}

ElIdle ==
    /\ lines = <<>> /\ finalNL = TRUE /\ buf = <<>>
    /\ sym = FALSE /\ ut = FALSE /\ sl = FALSE /\ wkind = "none"
    /\ num_threads = 1 /\ pc = "off"
    /\ wpc = <<>> /\ rs = <<>> /\ nl_offsets = <<>>
    /\ m_ = 0 /\ x_ = NoArray /\ y_ = NoArray /\ w_ = NoArray
    /\ nrows_ = 0 /\ ncols_ = 0 /\ n_ = 0
    /\ rs_p2 = <<>> /\ coord_pos = <<>> /\ max_row = <<>> /\ max_col = <<>>
    /\ org = NoArray /\ wr_x = NoArray /\ wr_y = NoArray /\ wr_w = NoArray
    /\ oob = {} /\ seen = <<>>

BinInit ==
    /\ ElIdle
    /\ ExtIdle
    /\ bpc = "init"
    /\ src_coo \in COOs
    /\ bthreads \in 1..MaxThreads
    /\ bfile = <<>>
    /\ dst_coo = <<>>

\* c.save(fn)
Save ==
    /\ bpc = "init"
    /\ bfile' = save(src_coo, bthreads).data
    /\ bpc' = "saved"
    /\ UNCHANGED <<src_coo, dst_coo, bthreads>>
    /\ UNCHANGED el_vars
    /\ UNCHANGED ext_vars

\* COO(fn, PIGO_COO_BIN) with the same L, O, W and wgt: read_bin_
ReadBin ==
    /\ bpc = "saved"
    /\ \E g \in {0, 255} :
        \E c \in {read_bin_(bfile, Cardinality(DOMAIN bfile), src_coo.wgt, bthreads, g)} :
          /\ dst_coo' = c
          /\ bpc' = IF c.err = "none" THEN "loaded" ELSE "error"
    /\ UNCHANGED <<src_coo, bfile, bthreads>>
    /\ UNCHANGED el_vars
    /\ UNCHANGED ext_vars

BinNext == Save \/ ReadBin

SpecBin == BinInit /\ [][BinNext]_vars

\* C10: reading with read_bin_ (same L, O, W widths) the file that save wrote
\* for a COO c gives nrows, ncols, n, m and the arrays X, Y, W of c.
C10_BinaryRoundTrip ==
    bpc \in {"loaded", "error"} => (bpc = "loaded" /\ dst_coo = src_coo)

\* a weighted COO with edges and a label of two non-zero bytes, loaded back
C10_Witness ==
    /\ bpc = "loaded"
    /\ src_coo.wgt
    /\ src_coo.m = MaxEdges
    /\ bthreads >= 2
    /\ \E i \in DOMAIN src_coo.x : src_coo.x[i] = 258 /\ src_coo.w[i] < 0

-----------------------------------------------------------------------------
(* read_bin_ on a file that differs from the one save wrote: a width byte  *)
(* changed, the count m raised, or the end of the file cut off.            *)

\* the offsets of the width bytes and of m in the file
L_size_at == Len(coo_file_header)

O_size_at == Len(coo_file_header) + 1

m_at == Len(coo_file_header) + 2 + 3 * Sizeof.L

\* the m that read_bin_ reads from the file
file_m(data) == FromBytes(read([data |-> data, fp |-> m_at], Sizeof.O))

\* the offset one past the last byte that read_bin_ copies when it does not throw
read_extent(data, has_wgt) ==
    m_at + Sizeof.O + 2 * Sizeof.L * file_m(data) + weight_size_(has_wgt, file_m(data))

\* the file data with the bytes bs at offset at
SetBytes(data, at, bs) ==
    [i \in DOMAIN data |-> IF at <= i /\ i < at + Len(bs) THEN bs[i - at + 1] ELSE data[i]]

\* the file data without its last k bytes
Cut(data, k) == [i \in 0..(Cardinality(DOMAIN data) - k - 1) |-> data[i]]

\* the memory read_bin_ reads: the file, followed up to offset upto by what
\* lies beyond the mapping, bytes of value o
Mapped(data, upto, o) ==
    [i \in 0..(Max(Cardinality(DOMAIN data), upto) - 1) |->
        IF i \in DOMAIN data THEN data[i] ELSE o]

\* the saved COOs of this part: labels 1 and 258, weight 5
AltCOOs ==
    {c \in COOs :
        /\ c.nrows = 1 /\ c.ncols = 1
        /\ \A i \in DOMAIN c.x : c.x[i] # 0 /\ c.y[i] # 0
        /\ c.w # NoArray => \A i \in DOMAIN c.w : c.w[i] = 5}

\* the files given to read_bin_, made from the saved file data of a COO of m edges
Alterations(data, m) ==
    {[kind |-> [k |-> "same", v |-> 0], data |-> data]}
    \cup {[kind |-> [k |-> "L_width", v |-> v], data |-> SetBytes(data, L_size_at, <<v>>)] :
            v \in {1, 4}}
    \cup {[kind |-> [k |-> "O_width", v |-> v], data |-> SetBytes(data, O_size_at, <<v>>)] :
            v \in {2, 8}}
    \cup {[kind |-> [k |-> "count", v |-> v],
           data |-> SetBytes(data, m_at, ToBytes(m + v, Sizeof.O))] : v \in {1, 2}}
    \cup {[kind |-> [k |-> "cut", v |-> v], data |-> Cut(data, v)] :
            v \in {u \in {1, 3} : m > 0}}

AltInit ==
    /\ ElIdle
    /\ TwIdle
    /\ CvIdle
    /\ MmIdle
    /\ AltIdle
    /\ GfIdle
    /\ SpIdle
    /\ ScIdle
    /\ FmIdle
    /\ RestIdle
    /\ bpc = "init"
    /\ src_coo \in AltCOOs
    /\ bthreads \in 1..MaxThreads
    /\ bfile = <<>>
    /\ dst_coo = <<>>

\* the file is replaced by one that differs from what save wrote
Alter ==
    /\ bpc = "saved"
    /\ \E a \in Alterations(bfile, src_coo.m) :
          /\ bfile' = a.data
          /\ alt_kind' = a.kind
    /\ bpc' = "altered"
    /\ UNCHANGED <<src_coo, dst_coo, bthreads, alt_beyond>>
    /\ UNCHANGED el_vars
    /\ UNCHANGED <<tw_vars, cv_vars, mm_vars, gf_vars, sp_vars, sc_vars, fm_vars, rest_vars>>

\* COO(fn, PIGO_COO_BIN) on the altered file.  read_bin_ compares nothing
\* with the length of the file, so when m announces more than the file holds
\* the memcpy of parallel_read reads beyond the mapping: the process is
\* killed, or the copy returns whatever bytes lie there.
ReadAltered ==
    /\ bpc = "altered"
    /\ \E g \in {0, 255}, o \in {0, 255}, killed \in BOOLEAN :
        \E end \in {Cardinality(DOMAIN bfile)}, ext \in {read_extent(bfile, src_coo.wgt)} :
          \E c \in {read_bin_(Mapped(bfile, ext, o), end, src_coo.wgt, bthreads, g)} :
            IF c.err # "none"
            THEN /\ ~killed
                 /\ bpc' = "error"
                 /\ dst_coo' = c
                 /\ alt_beyond' = 0
            ELSE IF ext <= end
            THEN /\ ~killed
                 /\ bpc' = "loaded"
                 /\ dst_coo' = c
                 /\ alt_beyond' = 0
            ELSE IF killed
            THEN /\ bpc' = "killed"
                 /\ UNCHANGED <<dst_coo, alt_beyond>>
            ELSE /\ bpc' = "loaded"
                 /\ dst_coo' = c
                 /\ alt_beyond' = ext - end
    /\ UNCHANGED <<src_coo, bfile, bthreads, alt_kind>>
    /\ UNCHANGED el_vars
    /\ UNCHANGED <<tw_vars, cv_vars, mm_vars, gf_vars, sp_vars, sc_vars, fm_vars, rest_vars>>

AltNext == Save \/ Alter \/ ReadAltered

SpecBinAlt == AltInit /\ [][AltNext]_vars

\* read_bin_ has returned or thrown, or the process was killed
AltRead == bpc \in {"loaded", "error", "killed"}

\* C16: read_bin_ raises an error whenever the file's L_width byte differs
\* from sizeof(L) or its O_width byte differs from sizeof(O), before reading
\* nrows, ncols, n, m or allocating any array; when both bytes match no width
\* error is raised.
C16_WidthError ==
    AltRead =>
        IF bfile[L_size_at] # Sizeof.L \/ bfile[O_size_at] # Sizeof.O
        THEN bpc = "error" /\ dst_coo = [err |-> "width"] /\ alt_beyond = 0
        ELSE ~(bpc = "error" /\ dst_coo.err = "width")

\* a file with edges and the O_width byte of another type was rejected
C16_Witness ==
    /\ bpc = "error"
    /\ alt_kind.k = "O_width"
    /\ src_coo.m > 0
    /\ dst_coo = [err |-> "width"]

\* the m of the file announces more bytes than the file holds
ShortFile == read_extent(bfile, src_coo.wgt) > Cardinality(DOMAIN bfile)

\* C17: when the header's m implies a payload longer than the bytes remaining
\* in the file after the header, read_bin_ raises an error and copies no byte
\* from beyond the end of the mapped file.
C17_ShortFileRejected ==
    (AltRead /\ alt_kind.k \in {"count", "cut"} /\ ShortFile) =>
        (bpc = "error" /\ alt_beyond = 0)

-----------------------------------------------------------------------------
(* The text writer: COO::write on num_threads OpenMP threads, applied to   *)
(* the COO that the text constructor built from an edge list, and the      *)
(* text constructor applied to the file it wrote.                          *)

\* the byte that File::File in WRITE mode puts at the end of a new file
SOH == "SOH"

\* the first iteration of thread t in "#pragma omp for" over n iterations on
\* nt threads (static schedule: contiguous blocks in thread order, the first
\* n % nt threads one iteration longer)
ChunkLo(t, n, nt) == t * (n \div nt) + Min(t, n % nt)

\* one past the last iteration of thread t
ChunkHi(t, n, nt) == ChunkLo(t + 1, n, nt)

\* obj / 10 of C++: the quotient truncated towards zero
div10(obj) == IF obj < 0 THEN 0 - ((0 - obj) \div 10) ELSE obj \div 10

\* obj % 10 of C++: the remainder has the sign of obj
rem10(obj) == obj - 10 * div10(obj)

\* the do-while loop of write_size: the number of times obj is divided by 10
\* until it is 0
RECURSIVE digit_count(_)
digit_count(obj) == IF div10(obj) = 0 THEN 1 ELSE 1 + digit_count(div10(obj))

\* detail::neg_size for a signed type (0 for every value of an unsigned one)
neg_size(obj) == IF obj < 0 THEN 1 ELSE 0

\* the value v converted to the signed type W (two's complement)
to_signed(v) ==
    ((v + Pow256(Sizeof.W) \div 2) % Pow256(Sizeof.W)) - Pow256(Sizeof.W) \div 2

\* detail::get_positive: "return -obj" for a negative obj of the signed type
\* W, obj for any other (-obj is computed as an int and converted to W)
get_positive(obj) == IF obj < 0 THEN to_signed(0 - obj) ELSE obj

\* write_size of an integral obj
write_size(obj) == neg_size(obj) + digit_count(obj)

\* the byte (obj%10)+'0' for the remainder r
ascii_char(r) ==
    CASE r >= 0 -> DigitChar(r)
      [] r = 0 - 1 -> "/" [] r = 0 - 2 -> "." [] r = 0 - 3 -> "-"
      [] r = 0 - 4 -> "," [] r = 0 - 5 -> "+" [] r = 0 - 6 -> "*"
      [] r = 0 - 7 -> ")" [] r = 0 - 8 -> "(" [] r = 0 - 9 -> "'"

\* the do-while loop of write_ascii: one byte per division of obj by 10, the
\* last one stored first, at the end
RECURSIVE ascii_digits(_)
ascii_digits(obj) ==
    IF div10(obj) = 0 THEN <<ascii_char(rem10(obj))>>
    ELSE Append(ascii_digits(div10(obj)), ascii_char(rem10(obj)))

\* a byte between the old and the new fp that write_ascii does not store
Unwritten == "unwritten"

\* write_ascii of an integral obj: the bytes from the old fp up to the new
\* one.  The sign is stored by write_neg_ascii; the loop stores its bytes in
\* the last places of the num_size = write_size(get_positive(obj)) that
\* follow.
write_ascii(obj) ==
    (IF obj < 0 THEN <<"-">> ELSE <<>>)
        \o With(get_positive(obj), LAMBDA pos :
               [k \in 1..(write_size(pos) - digit_count(pos)) |-> Unwritten]
                   \o ascii_digits(pos))

\* stbsp_to_chars: the decimal text of a floating point value (held in
\* tenths), all of whose bytes it stores; it returns their number
stbsp_to_chars(obj) ==
    (IF obj < 0 THEN <<"-">> ELSE <<>>)
        \o With(IF obj < 0 THEN 0 - obj ELSE obj, LAMBDA a :
               FmtNat(a \div 10) \o <<".">> \o <<DigitChar(a % 10)>>)

\* write_size of a floating point obj
write_size_fp(obj) ==
    With(Len(stbsp_to_chars(obj)), LAMBDA sz : IF sz >= 1024 THEN 1023 ELSE sz)

\* write_ascii of a floating point obj: the bytes stored at fp; fp advances
\* by write_size_fp(obj)
write_ascii_fp(obj) == stbsp_to_chars(obj)

\* write_size(w), by the arithmetic class of W
weight_size(obj) == IF wkind = "fp" THEN write_size_fp(obj) ELSE write_size(obj)

\* write_ascii(my_fp, w), by the arithmetic class of W
weight_ascii(obj) == IF wkind = "fp" THEN write_ascii_fp(obj) ELSE write_ascii(obj)

\* what Pass 1 of write adds to my_size for edge e
edge_size(e) ==
    write_size(x_[e]) + 1 + write_size(y_[e])
        + (IF wgt THEN 1 + weight_size(w_[e]) ELSE 0) + 1

\* what Pass 2 of write writes for edge e
edge_text(e) ==
    write_ascii(x_[e]) \o <<" ">> \o write_ascii(y_[e])
        \o (IF wgt THEN <<" ">> \o weight_ascii(w_[e]) ELSE <<>>) \o <<NL>>

\* my_size of a thread whose iterations are lo..hi-1
RECURSIVE chunk_size(_, _)
chunk_size(lo, hi) == IF lo >= hi THEN 0 ELSE edge_size(lo) + chunk_size(lo + 1, hi)

\* the bytes a thread whose iterations are lo..hi-1 writes from my_fp on
RECURSIVE chunk_text(_, _)
chunk_text(lo, hi) == IF lo >= hi THEN <<>> ELSE edge_text(lo) \o chunk_text(lo + 1, hi)

\* File::File in WRITE mode for a text file: max_size bytes, the last one
\* written by fputc(1)
NewTextFile(max_size) == [i \in 1..max_size |-> IF i = max_size THEN SOH ELSE NUL]

\* the bytes txt stored from offset at on; a store past the end of the
\* mapping is not kept
StoreText(f, at, txt) ==
    [i \in 1..Len(f) |->
        IF at < i /\ i <= at + Len(txt) /\ txt[i - at] # Unwritten
        THEN txt[i - at] ELSE f[i]]

\* the edge lists that are read, written and read again: records and blank
\* lines, no comment line, no record twice
TwLineSeqs ==
    {ls \in LineSeqs :
        /\ \A i \in DOMAIN ls : ls[i].k # "cmt"
        /\ \A i, j \in DOMAIN ls : (i < j /\ ls[i].k = "rec") => ls[i] # ls[j]}

TwInit ==
    /\ lines \in TwLineSeqs
    /\ finalNL \in (IF lines = <<>> THEN {TRUE} ELSE BOOLEAN)
    /\ sym = FALSE /\ ut = FALSE /\ sl = FALSE
    /\ wkind \in {"none", "uint", "int"}
    /\ num_threads \in 1..MaxThreads
    /\ buf = Render(lines, wkind, finalNL, Len(lines))
    /\ pc = "off"
    /\ wpc = <<>> /\ rs = <<>> /\ nl_offsets = <<>>
    /\ m_ = 0 /\ x_ = NoArray /\ y_ = NoArray /\ w_ = NoArray
    /\ nrows_ = 0 /\ ncols_ = 0 /\ n_ = 0
    /\ rs_p2 = <<>> /\ coord_pos = <<>> /\ max_row = <<>> /\ max_col = <<>>
    /\ org = NoArray /\ wr_x = NoArray /\ wr_y = NoArray /\ wr_w = NoArray
    /\ oob = {} /\ seen = <<>>
    /\ BinIdle
    /\ tw_pc = "read"
    /\ tw_at = <<>>
    /\ pos_offsets = <<>>
    /\ out = <<>>
    /\ coo2 = <<>>
    /\ tw_wr = {}
    /\ CvIdle
    /\ MmIdle
    /\ AltIdle
    /\ GfIdle
    /\ SpIdle
    /\ ScIdle
    /\ FmIdle
    /\ RestIdle

tw_frame ==
    UNCHANGED <<lines, finalNL, sym, ut, sl, wkind, num_threads, pc, wpc, rs,
                nl_offsets, rs_p2, coord_pos, max_row, max_col,
                org, wr_x, wr_y, wr_w, oob, seen, cv_vars, mm_vars, alt_vars, gf_vars, sp_vars, sc_vars, fm_vars, rest_vars>>

\* COO c { fn, EDGE_LIST }: File::File, which throws for a file of size 0,
\* then read_el_; then c.write(fn2) starts
TwRead ==
    /\ tw_pc = "read"
    /\ IF Len(buf) = 0
       THEN /\ tw_pc' = "error"
            /\ UNCHANGED <<m_, x_, y_, w_, nrows_, ncols_, n_, tw_at, pos_offsets>>
       ELSE \E g \in Garbage :
              \E c \in {SeqRead(g)} :
                /\ m_' = c.m /\ x_' = c.x /\ y_' = c.y /\ w_' = c.w
                /\ nrows_' = c.nrows /\ ncols_' = c.ncols /\ n_' = c.n
                /\ tw_pc' = "pass1"
                /\ tw_at' = [t \in Threads |-> "p1"]
                /\ pos_offsets' = [i \in 0..num_threads |-> 0]
    /\ UNCHANGED <<buf, out, coo2, tw_wr>>
    /\ tw_frame
    /\ UNCHANGED bin_vars

\* Pass 1 of thread t: the size of what it will write
TwPass1(t) ==
    /\ tw_pc = "pass1"
    /\ tw_at[t] = "p1"
    /\ pos_offsets' = [pos_offsets EXCEPT ![t + 1] =
            chunk_size(ChunkLo(t, m_, num_threads), ChunkHi(t, m_, num_threads))]
    /\ tw_at' = [tw_at EXCEPT ![t] = "bar"]
    /\ UNCHANGED <<buf, m_, x_, y_, w_, nrows_, ncols_, n_, tw_pc, out, coo2, tw_wr>>
    /\ tw_frame
    /\ UNCHANGED bin_vars

\* the single block between the barriers: the prefix sum and the new file;
\* File::File throws when max_size is 0
TwSingle ==
    /\ tw_pc = "pass1"
    /\ \A t \in Threads : tw_at[t] = "bar"
    /\ \E sums \in {[i \in 0..num_threads |->
                        IF i = 0 THEN 0 ELSE PrefixSum([j \in 0..(i - 1) |-> pos_offsets[j + 1]], i - 1)]} :
          /\ pos_offsets' = sums
          /\ IF sums[num_threads] = 0
             THEN /\ tw_pc' = "error"
                  /\ UNCHANGED <<out, tw_at>>
             ELSE /\ tw_pc' = "pass2"
                  /\ out' = NewTextFile(sums[num_threads])
                  /\ tw_at' = [t \in Threads |-> "p2"]
    /\ UNCHANGED <<buf, m_, x_, y_, w_, nrows_, ncols_, n_, coo2, tw_wr>>
    /\ tw_frame
    /\ UNCHANGED bin_vars

\* Pass 2 of thread t: it writes its edges from pos_offsets[tid] on
TwPass2(t) ==
    /\ tw_pc = "pass2"
    /\ tw_at[t] = "p2"
    /\ \E txt \in {chunk_text(ChunkLo(t, m_, num_threads), ChunkHi(t, m_, num_threads))} :
          /\ out' = StoreText(out, pos_offsets[t], txt)
          /\ tw_wr' = tw_wr \cup {[t |-> t, pos |-> pos_offsets[t] + k - 1] :
                                    k \in {j \in DOMAIN txt : txt[j] # Unwritten}}
    /\ tw_at' = [tw_at EXCEPT ![t] = "fin"]
    /\ UNCHANGED <<buf, m_, x_, y_, w_, nrows_, ncols_, n_, tw_pc, pos_offsets, coo2>>
    /\ tw_frame
    /\ UNCHANGED bin_vars

\* write returns: the file is unmapped and is the input of the next read
TwClose ==
    /\ tw_pc = "pass2"
    /\ \A t \in Threads : tw_at[t] = "fin"
    /\ buf' = out
    /\ tw_pc' = "written"
    /\ UNCHANGED <<m_, x_, y_, w_, nrows_, ncols_, n_, tw_at, pos_offsets, out, coo2, tw_wr>>
    /\ tw_frame
    /\ UNCHANGED bin_vars

\* COO c2 { fn2, EDGE_LIST }
TwReread ==
    /\ tw_pc = "written"
    /\ \E g \in Garbage : coo2' = SeqRead(g)
    /\ tw_pc' = "reread"
    /\ UNCHANGED <<buf, m_, x_, y_, w_, nrows_, ncols_, n_, tw_at, pos_offsets, out, tw_wr>>
    /\ tw_frame
    /\ UNCHANGED bin_vars

TwNext ==
    \/ TwRead
    \/ \E t \in Threads : TwPass1(t)
    \/ TwSingle
    \/ \E t \in Threads : TwPass2(t)
    \/ TwClose
    \/ TwReread

SpecWrite == TwInit /\ [][TwNext]_vars

\* the smallest value of the signed type W
W_min == 0 - Pow256(Sizeof.W) \div 2

\* the COOs that are written: any arrays of m <= MaxEdges edges, the
\* weights being those of COOs and the smallest of W
WrCOOs ==
    UNION {
        {[wgt |-> hw, nrows |-> 259, ncols |-> 259, n |-> 259, m |-> m,
          x |-> x, y |-> y, w |-> w] :
            x \in [0..(m - 1) -> LabelValues],
            y \in [0..(m - 1) -> LabelValues],
            w \in (IF hw /\ m > 0 THEN [0..(m - 1) -> WeightValues \cup {W_min}]
                                   ELSE {NoArray})} :
        hw \in BOOLEAN, m \in 0..MaxEdges}

\* write called on a COO held in memory, its weights of any arithmetic class
WrInit ==
    /\ lines = <<>>
    /\ finalNL = TRUE
    /\ buf = <<>>
    /\ sym = FALSE /\ ut = FALSE /\ sl = FALSE
    /\ num_threads \in 1..MaxThreads
    /\ pc = "off"
    /\ wpc = <<>> /\ rs = <<>> /\ nl_offsets = <<>>
    /\ \E c \in WrCOOs :
          /\ m_ = c.m /\ x_ = c.x /\ y_ = c.y /\ w_ = c.w
          /\ nrows_ = c.nrows /\ ncols_ = c.ncols /\ n_ = c.n
          /\ wkind \in (IF c.wgt THEN {"int", "fp"} ELSE {"none"})
    /\ rs_p2 = <<>> /\ coord_pos = <<>> /\ max_row = <<>> /\ max_col = <<>>
    /\ org = NoArray /\ wr_x = NoArray /\ wr_y = NoArray /\ wr_w = NoArray
    /\ oob = {} /\ seen = <<>>
    /\ BinIdle
    /\ tw_pc = "pass1"
    /\ tw_at = [t \in Threads |-> "p1"]
    /\ pos_offsets = [i \in 0..num_threads |-> 0]
    /\ out = <<>>
    /\ coo2 = <<>>
    /\ tw_wr = {}
    /\ CvIdle
    /\ MmIdle
    /\ AltIdle
    /\ GfIdle
    /\ SpIdle
    /\ ScIdle
    /\ FmIdle
    /\ RestIdle

WrNext ==
    \/ \E t \in Threads : TwPass1(t)
    \/ TwSingle
    \/ \E t \in Threads : TwPass2(t)
    \/ TwClose

SpecWriteCoo == WrInit /\ [][WrNext]_vars

\* the offsets thread t stored a byte at
StoredBy(t) == {s.pos : s \in {r \in tw_wr : r.t = t}}

\* C30: in write, for every number of workers and every COO, the bytes
\* worker t stores are as many as the size it computed and fill exactly
\* [pos_offsets[t], pos_offsets[t+1]): no byte is stored by two workers,
\* none is left unwritten, and none lies at or beyond the length of the
\* pre-sized file.
C30_WritesFillSlices ==
    /\ tw_pc \in {"pass2", "written"} =>
          /\ Len(out) = pos_offsets[num_threads]
          /\ \A s \in tw_wr :
                /\ pos_offsets[s.t] <= s.pos
                /\ s.pos < pos_offsets[s.t + 1]
                /\ s.pos < Len(out)
          /\ \A t, u \in Threads : t # u => StoredBy(t) \cap StoredBy(u) = {}
          /\ \A t \in Threads :
                tw_at[t] = "fin" =>
                    StoredBy(t) = pos_offsets[t]..(pos_offsets[t + 1] - 1)
    /\ tw_pc = "written" =>
          UNION {StoredBy(t) : t \in Threads} = 0..(Len(out) - 1)

\* C11: reading an edge list with no comments and no duplicates (also one
\* with no records) with no flags, writing the COO with write and reading
\* the written file succeeds and gives the same m, X, Y, nrows, ncols and n.
C11_TextRoundTrip ==
    /\ tw_pc # "error"
    /\ tw_pc = "reread" =>
          /\ coo2.m = m_ /\ coo2.x = x_ /\ coo2.y = y_
          /\ coo2.nrows = nrows_ /\ coo2.ncols = ncols_ /\ coo2.n = n_

\* the part of C11 that holds: for an edge list with at least one record and
\* a newline after every record, the read, the write and the second read
\* succeed and the second read gives the COO of the first
C11_RoundTripOfTerminatedRecords ==
    (RecLines # {} /\ AllTerminated) =>
        /\ tw_pc # "error"
        /\ tw_pc = "reread" =>
              /\ coo2.m = m_ /\ coo2.x = x_ /\ coo2.y = y_ /\ coo2.w = w_
              /\ coo2.nrows = nrows_ /\ coo2.ncols = ncols_ /\ coo2.n = n_

-----------------------------------------------------------------------------
(* The conversion from a CSR: COO::convert_csr_.  The CSR has the vertices *)
(* 0..n-1, offsets[v]..offsets[v+1]-1 are the positions in endpoints of    *)
(* the neighbours of v, and weights[i] is the weight of endpoints[i].      *)

\* the largest number of vertices of a CSR
MaxVertices == 2

\* the (v, u) pairs of a vertex set, by ascending v and then u
RECURSIVE PairsInOrder(_, _, _, _)
PairsInOrder(E, n, v, u) ==
    IF v >= n THEN <<>>
    ELSE IF u >= n THEN PairsInOrder(E, n, v + 1, 0)
    ELSE (IF <<v, u>> \in E THEN <<<<v, u>>>> ELSE <<>>) \o PairsInOrder(E, n, v, u + 1)

\* the CSR of the edge set E on n vertices, edge i weighing i + 1
CsrOf(E, n) ==
    LET ps == PairsInOrder(E, n, 0, 0)
    IN  [n |-> n, m |-> Len(ps),
         offsets |-> [v \in 0..n |-> Cardinality({i \in DOMAIN ps : ps[i][1] < v})],
         endpoints |-> [i \in 0..(Len(ps) - 1) |-> ps[i + 1][2]],
         weights |-> [i \in 0..(Len(ps) - 1) |-> i + 1]]

\* the CSRs that are converted: every edge set (no edge twice) on 1..MaxVertices vertices
CSRs ==
    UNION {{CsrOf(E, n) : E \in SUBSET ((0..(n - 1)) \X (0..(n - 1)))} : n \in 1..MaxVertices}

CvInit ==
    /\ lines = <<>> /\ finalNL = TRUE /\ buf = <<>>
    /\ sym = FALSE /\ ut = FALSE /\ sl = FALSE /\ wkind = "none"
    /\ num_threads = 1 /\ pc = "off"
    /\ wpc = <<>> /\ rs = <<>> /\ nl_offsets = <<>>
    /\ m_ = 0 /\ x_ = NoArray /\ y_ = NoArray /\ w_ = NoArray
    /\ n_ = 0
    \* the members nrows_ and ncols_ hold what the construction of the object
    \* left in them
    /\ nrows_ \in Garbage
    /\ ncols_ \in Garbage
    /\ rs_p2 = <<>> /\ coord_pos = <<>> /\ max_row = <<>> /\ max_col = <<>>
    /\ org = NoArray /\ wr_x = NoArray /\ wr_y = NoArray /\ wr_w = NoArray
    /\ oob = {} /\ seen = <<>>
    /\ BinIdle
    /\ TwIdle
    /\ MmIdle
    /\ AltIdle
    /\ GfIdle
    /\ SpIdle
    /\ ScIdle
    /\ FmIdle
    /\ RestIdle
    /\ cv_pc = "init"
    /\ csr \in CSRs
    /\ cv_rows = {}
    /\ cv_alloc = FALSE
    /\ cv_st = {}

\* the flags of the COO being built are chosen when the conversion starts
\* (they are template parameters): convert_csr_ throws NotYetImplemented
\* without them being (SYM or not UT) and not SL
csr_throws_ut_only(s, u, l) == ~s /\ u

csr_throws(s, u, l) == (~s /\ u) \/ l

cv_frame ==
    UNCHANGED <<lines, finalNL, buf, num_threads, pc, wpc, rs, nl_offsets,
                nrows_, ncols_, rs_p2, coord_pos, max_row, max_col,
                org, wr_x, wr_y, wr_w, oob, seen, bin_vars, tw_vars, mm_vars, alt_vars, gf_vars, sp_vars, sc_vars, fm_vars, rest_vars>>

\* convert_csr_ up to the parallel for: n_, m_, the throws, allocate_()
CvStart ==
    /\ cv_pc = "init"
    /\ \E s \in BOOLEAN, u \in BOOLEAN, l \in BOOLEAN, wk \in {"none", "uint"}, g \in Garbage :
          /\ sym' = s /\ ut' = u /\ sl' = l /\ wkind' = wk
          /\ n_' = csr.n
          /\ m_' = IF s /\ ~u THEN csr.m * 2 ELSE csr.m
          /\ IF csr_throws(s, u, l)
             THEN /\ cv_pc' = "error"
                  /\ UNCHANGED <<x_, y_, w_, cv_alloc>>
             ELSE /\ cv_pc' = "rows"
                  /\ cv_alloc' = TRUE
                  /\ x_' = NewArray(m_', g)
                  /\ y_' = NewArray(m_', g)
                  /\ w_' = IF wk # "none" THEN NewArray(m_', g) ELSE NoArray
    /\ UNCHANGED <<csr, cv_rows, cv_st>>
    /\ cv_frame

\* the stores of the inner loop of vertex v from position cur of endpoints
\* on, coo_cur being the next index of the output
RECURSIVE row_stores(_, _, _)
row_stores(v, cur, coo_cur) ==
    IF cur >= csr.offsets[v + 1] THEN <<>>
    ELSE LET u == csr.endpoints[cur]
             swap == sym /\ ut /\ v > u
             new_x == IF swap THEN u ELSE v
             new_y == IF swap THEN v ELSE u
             both == sym /\ ~ut
             mirror == IF both
                       THEN <<Store("x", coo_cur, new_y, cur), Store("y", coo_cur, new_x, cur)>>
                            \o (IF wgt THEN <<Store("w", coo_cur, csr.weights[cur], cur)>> ELSE <<>>)
                       ELSE <<>>
             at == IF both THEN coo_cur + 1 ELSE coo_cur
         IN  mirror
             \o <<Store("x", at, new_x, cur), Store("y", at, new_y, cur)>>
             \o (IF wgt THEN <<Store("w", at, csr.weights[cur], cur)>> ELSE <<>>)
             \o row_stores(v, cur + 1, at + 1)

\* coo_cur as if it were never doubled
row_start_plain(v) == csr.offsets[v]

\* coo_cur before the inner loop of vertex v
row_start(v) == IF sym /\ ~ut THEN csr.offsets[v] * 2 ELSE csr.offsets[v]

\* one iteration of the parallel for (dynamic schedule: in any order)
CvRow(v) ==
    /\ cv_pc = "rows"
    /\ v \in (0..(n_ - 1)) \ cv_rows
    /\ \E st \in {row_stores(v, csr.offsets[v], row_start(v))} :
          /\ x_' = store_all(x_, st, "x")
          /\ y_' = store_all(y_, st, "y")
          /\ w_' = store_all(w_, st, "w")
          /\ cv_st' = cv_st \cup {[v |-> v, j |-> j, a |-> st[j].a, i |-> st[j].i] :
                                    j \in DOMAIN st}
    /\ cv_rows' = cv_rows \cup {v}
    /\ UNCHANGED <<sym, ut, sl, wkind, m_, n_, cv_pc, csr, cv_alloc>>
    /\ cv_frame

\* the end of the parallel for
CvEnd ==
    /\ cv_pc = "rows"
    /\ cv_rows = 0..(n_ - 1)
    /\ cv_pc' = "done"
    /\ UNCHANGED <<sym, ut, sl, wkind, m_, x_, y_, w_, n_, csr, cv_rows, cv_alloc, cv_st>>
    /\ cv_frame

CvNext == CvStart \/ (\E v \in 0..(MaxVertices - 1) : CvRow(v)) \/ CvEnd

SpecCsr == CvInit /\ [][CvNext]_vars

\* the edges of the CSR, as (v, u) pairs
CsrEdges ==
    UNION {{<<v, csr.endpoints[i]>> :
               i \in {j \in DOMAIN csr.endpoints :
                          csr.offsets[v] <= j /\ j < csr.offsets[v + 1]}} :
           v \in 0..(csr.n - 1)}

\* how many indices of the COO hold the entry (a, b)
TimesStored(a, b) == Cardinality({i \in DOMAIN x_ : x_[i] = a /\ y_[i] = b})

\* C12: in a COO built with SYM and not UT, by the text constructor or from
\* a CSR, both (a,b) and (b,a) are stored for every input entry (a,b) with
\* a # b, and every input entry (a,a) is stored exactly once.
C12_SymBothDirections ==
    /\ (cv_pc = "done" /\ sym /\ ~ut) =>
          \A e \in CsrEdges :
             IF e[1] # e[2]
             THEN TimesStored(e[1], e[2]) >= 1 /\ TimesStored(e[2], e[1]) >= 1
             ELSE TimesStored(e[1], e[1]) = 1
    /\ (Done /\ sym /\ ~ut) =>
          \A i \in RecLines :
             IF lines[i].x # lines[i].y
             THEN /\ TimesStored(lines[i].x, lines[i].y) >= 1
                  /\ TimesStored(lines[i].y, lines[i].x) >= 1
             ELSE TimesStored(lines[i].x, lines[i].x) =
                    Cardinality({j \in RecLines : lines[j] = lines[i]})

\* the positions k of endpoints that hold the neighbours of v
RowOf(v) == {k \in DOMAIN csr.endpoints : csr.offsets[v] <= k /\ k < csr.offsets[v + 1]}

\* index i of the COO holds the entry (a, b), with the weight of position k
\* of the CSR when there are weights
EntryIs(i, a, b, k) ==
    /\ i \in DOMAIN x_
    /\ x_[i] = a
    /\ y_[i] = b
    /\ wgt => w_[i] = csr.weights[k]

\* C25: after the conversion, for every vertex v and neighbour u = ep[k]:
\* with SYM and UT the entry at index k is (min(v,u), max(v,u)); with SYM and
\* not UT the entry at index 2k is (v,u) and the entry at 2k+1 is (u,v), both
\* with the weight of k; otherwise the entry at k is (v,u) with the weight
\* of k.
C25_EntryOfEachNeighbour ==
    cv_pc = "done" =>
        \A v \in 0..(csr.n - 1) : \A k \in RowOf(v) :
            LET u == csr.endpoints[k]
            IN  IF sym /\ ut THEN EntryIs(k, Min(v, u), Max(v, u), k)
                ELSE IF sym /\ ~ut
                     THEN EntryIs(2 * k, v, u, k) /\ EntryIs(2 * k + 1, u, v, k)
                     ELSE EntryIs(k, v, u, k)

\* what holds instead of C25: with SYM and not UT the entry at index 2k is
\* (u,v) and the entry at 2k+1 is (v,u)
C25_MirrorFirst ==
    cv_pc = "done" =>
        \A v \in 0..(csr.n - 1) : \A k \in RowOf(v) :
            LET u == csr.endpoints[k]
            IN  IF sym /\ ut THEN EntryIs(k, Min(v, u), Max(v, u), k)
                ELSE IF sym /\ ~ut
                     THEN EntryIs(2 * k, u, v, k) /\ EntryIs(2 * k + 1, v, u, k)
                     ELSE EntryIs(k, v, u, k)

\* the stores made into index i of array a
StoresAt(a, i) == {s \in cv_st : s.a = a /\ s.i = i}

\* C26: for a CSR with monotone offsets and every order of the iterations,
\* every index below m of X and Y (and of W with weights) is written exactly
\* once, by one vertex's iteration, no index >= m is written, and m is
\* csr.m, doubled exactly when SYM and not UT.
C26_EachIndexOnce ==
    /\ cv_pc \in {"rows", "done"} =>
          /\ m_ = (IF sym /\ ~ut THEN 2 * csr.m ELSE csr.m)
          /\ \A s \in cv_st : s.i < m_
          /\ \A i \in 0..(m_ - 1) : \A a \in {"x", "y", "w"} :
                Cardinality(StoresAt(a, i)) <= 1
    /\ cv_pc = "done" =>
          \A i \in 0..(m_ - 1) :
              /\ Cardinality(StoresAt("x", i)) = 1
              /\ Cardinality(StoresAt("y", i)) = 1
              /\ Cardinality(StoresAt("w", i)) = (IF wgt THEN 1 ELSE 0)

\* a finished conversion with SYM and without UT of a weighted CSR in which
\* each of two vertices has a neighbour
C26_Witness ==
    /\ cv_pc = "done"
    /\ sym /\ ~ut /\ wgt
    /\ csr.n = 2
    /\ RowOf(0) # {} /\ RowOf(1) # {}
    /\ m_ = 2 * csr.m
    /\ \E s \in cv_st : s.v = 1 /\ s.i = m_ - 1

\* C27: a COO converted from a CSR satisfies the size invariants: every
\* label of X is below nrows, every label of Y below ncols, and n is the
\* larger of nrows and ncols.
C27_CsrSizeInvariants ==
    cv_pc = "done" =>
        /\ \A i \in DOMAIN x_ : x_[i] < nrows_
        /\ \A i \in DOMAIN y_ : y_[i] < ncols_
        /\ n_ = Max(nrows_, ncols_)

\* C18: convert_csr_ fails with the not-yet-implemented error exactly when
\* (not SYM and UT) or SL, then before any array is allocated or written;
\* with any other flags it does not fail.
C18_CsrUnsupportedFlags ==
    cv_pc \in {"rows", "done", "error"} =>
        /\ cv_pc = "error" <=> ((~sym /\ ut) \/ sl)
        /\ cv_pc = "error" =>
              (~cv_alloc /\ x_ = NoArray /\ y_ = NoArray /\ w_ = NoArray)

\* the conversion of a CSR with an edge failed because of SL alone
C18_Witness ==
    /\ cv_pc = "error"
    /\ sl /\ sym /\ ~ut
    /\ csr.m >= 1
    /\ ~cv_alloc

-----------------------------------------------------------------------------
(* The MatrixMarket reader: COO::read_mm_ on the reader of the whole file, *)
(* with read_el_ run on one thread.                                        *)

\* "%%MatrixMarket matrix coordinate"
mm_banner == <<"%", "%", "M", "a", "t", "r", "i", "x", "M", "a", "r", "k", "e", "t", " ", "m", "a", "t", "r", "i", "x", " ", "c", "o", "o", "r", "d", "i", "n", "a", "t", "e">>

\* "%%MatrixMarket matrix array", a banner of another format
mm_banner_array == <<"%", "%", "M", "a", "t", "r", "i", "x", "M", "a", "r", "k", "e", "t", " ", "m", "a", "t", "r", "i", "x", " ", "a", "r", "r", "a", "y">>

w_real == <<"r", "e", "a", "l">>

w_double == <<"d", "o", "u", "b", "l", "e">>

w_integer == <<"i", "n", "t", "e", "g", "e", "r">>

w_pattern == <<"p", "a", "t", "t", "e", "r", "n">>

w_complex == <<"c", "o", "m", "p", "l", "e", "x">>

w_general == <<"g", "e", "n", "e", "r", "a", "l">>

w_symmetric == <<"s", "y", "m", "m", "e", "t", "r", "i", "c">>

w_skew_symmetric == <<"s", "k", "e", "w", "-", "s", "y", "m", "m", "e", "t", "r", "i", "c">>

w_hermitian == <<"h", "e", "r", "m", "i", "t", "i", "a", "n">>

\* FileReader::at_str on the text file: whether str is at position d
text_at_str(d, end, str) ==
    IF d + Len(str) >= end THEN FALSE
    ELSE \A j \in 1..Len(str) : Peek(d + j - 1) = str[j]

\* FileReader::read(std::string): [comp, d]
reader_read(d, end, str) ==
    IF text_at_str(d, end, str) THEN [comp |-> TRUE, d |-> d + Len(str)]
    ELSE [comp |-> FALSE, d |-> d]

RECURSIVE skip_space_tab(_, _)
skip_space_tab(d, end) ==
    IF d < end /\ (Peek(d) = " " \/ Peek(d) = "\t") THEN skip_space_tab(d + 1, end) ELSE d

\* FileReader::read_word: [d, w], w the characters of the word
RECURSIVE read_word(_, _)
read_word(d, end) ==
    IF d < end /\ Peek(d) # " " /\ Peek(d) # "\t" /\ Peek(d) # "\r" /\ Peek(d) # NL
    THEN LET r == read_word(d + 1, end) IN [d |-> r.d, w |-> <<Peek(d)>> \o r.w]
    ELSE [d |-> d, w |-> <<>>]

\* the throws of read_mm_ that follow the banner, with the complex check left out
mm_word_error_no_complex(field, symmetry) ==
    IF field = w_pattern /\ wgt THEN "pattern"
    ELSE IF symmetry = w_symmetric THEN "none"
    ELSE IF symmetry = w_general \/ symmetry = w_skew_symmetric THEN "none"
    ELSE "symmetry"

\* the throws as if skew-symmetric were a token read_mm_ does not know
mm_word_error_no_skew(field, symmetry) ==
    IF field = w_pattern /\ wgt THEN "pattern"
    ELSE IF field = w_complex THEN "complex"
    ELSE IF symmetry = w_symmetric THEN "none"
    ELSE IF symmetry = w_general THEN "none"
    ELSE "symmetry"

\* the throws of read_mm_ that follow the banner, "none" if none is made
mm_word_error(field, symmetry) ==
    IF field = w_pattern /\ wgt THEN "pattern"
    ELSE IF field = w_complex THEN "complex"
    ELSE IF symmetry = w_symmetric THEN "none"
    ELSE IF symmetry = w_general \/ symmetry = w_skew_symmetric THEN "none"
    ELSE "symmetry"

\* the first lines of the generated files: banner, field and symmetry, and
\* whether a comment line follows
MmHeads ==
    {[banner |-> mm_banner, field |-> f, symmetry |-> w_general, cmt |-> FALSE] :
        f \in {w_integer, w_pattern, w_complex}}
    \cup {[banner |-> mm_banner, field |-> w_real, symmetry |-> y, cmt |-> TRUE] :
        y \in {w_symmetric, w_skew_symmetric, w_hermitian}}
    \cup {[banner |-> mm_banner_array, field |-> w_double, symmetry |-> w_general, cmt |-> FALSE]}

\* the numbers of the size line
MmSizes == {[nrows |-> r, ncols |-> c, nnz |-> z] : r \in 1..2, c \in 1..2, z \in 0..3}

\* the body: records only, each followed by a newline
MmLineSeqs == {ls \in LineSeqs : \A i \in DOMAIN ls : ls[i].k = "rec"}

MmText(h, z, ls, wk) ==
    h.banner \o <<" ">> \o h.field \o <<" ">> \o h.symmetry \o <<NL>>
        \o (IF h.cmt THEN <<"%", "c", NL>> ELSE <<>>)
        \o FmtNat(z.nrows) \o <<" ">> \o FmtNat(z.ncols) \o <<" ">> \o FmtNat(z.nnz) \o <<NL>>
        \o Render(ls, wk, TRUE, Len(ls))

\* the byte offset of line i of the body
MmOffsetOf(i) == Len(MmText(mm_in.head, mm_in.size, <<>>, wkind)) + LineOff(lines, wkind, i)

MmInitOf(H) ==
    /\ lines \in MmLineSeqs
    /\ finalNL = TRUE
    /\ sym \in BOOLEAN /\ ut \in BOOLEAN /\ sl \in BOOLEAN
    /\ wkind \in {"none", "uint"}
    /\ num_threads = 1
    /\ mm_in \in {[head |-> h, size |-> z] : h \in H, z \in MmSizes}
    /\ buf = MmText(mm_in.head, mm_in.size, lines, wkind)
    /\ pc = "off"
    /\ wpc = <<>> /\ rs = <<>> /\ nl_offsets = <<>>
    /\ m_ = 0 /\ x_ = NoArray /\ y_ = NoArray /\ w_ = NoArray
    /\ nrows_ = 0 /\ ncols_ = 0 /\ n_ = 0
    /\ rs_p2 = <<>> /\ coord_pos = <<>> /\ max_row = <<>> /\ max_col = <<>>
    /\ org = NoArray /\ wr_x = NoArray /\ wr_y = NoArray /\ wr_w = NoArray
    /\ oob = {} /\ seen = <<>>
    /\ BinIdle
    /\ TwIdle
    /\ CvIdle
    /\ AltIdle
    /\ GfIdle
    /\ SpIdle
    /\ ScIdle
    /\ FmIdle
    /\ RestIdle
    /\ mm_pc = "header"
    /\ mm_d = 0
    /\ mm_hdr = <<>>
    /\ mm_err = "none"
    /\ mm_alloc = FALSE
    /\ mm_first = <<>>

MmInit == MmInitOf(MmHeads)

mm_frame ==
    UNCHANGED <<lines, finalNL, buf, sym, ut, sl, wkind, num_threads, pc, wpc, rs,
                nl_offsets, rs_p2, coord_pos, max_row, max_col,
                org, wr_x, wr_y, wr_w, oob, seen, bin_vars, tw_vars, cv_vars, alt_vars, gf_vars, sp_vars, sc_vars, fm_vars, rest_vars, mm_in, mm_first>>

\* the count of labels taken as if the labels of the file started at 0
mm_label_count_same(v) == v

\* "account for MM starting at 1": the count of labels for the header's v
mm_label_count(v) == (v + 1) % LMod

\* read_mm_ up to the call of read_el_: the banner, the two words and their
\* throws, the three numbers of the size line
MmHeader ==
    /\ mm_pc = "header"
    /\ LET end == Len(buf)
           b  == reader_read(0, end, mm_banner)
           f  == read_word(skip_space_tab(b.d, end), end)
           y  == read_word(skip_space_tab(f.d, end), end)
           er == IF ~b.comp THEN "banner" ELSE mm_word_error(f.w, y.w)
           nr == read_int(move_to_next_int(y.d, end), end, LMod)
           nc == read_int(move_to_next_int(nr.d, end), end, LMod)
           nz == read_int(move_to_next_int(nc.d, end), end, LMod)
       IN  IF er # "none"
           THEN /\ mm_pc' = "error"
                /\ mm_err' = er
                /\ UNCHANGED <<mm_d, mm_hdr>>
           ELSE /\ mm_pc' = "body"
                /\ mm_hdr' = [nrows |-> mm_label_count(nr.v), ncols |-> mm_label_count(nc.v),
                              nnz |-> nz.v]
                /\ mm_d' = move_to_next_int(move_to_eol(nz.d, end), end)
                /\ UNCHANGED mm_err
    /\ UNCHANGED <<m_, x_, y_, w_, nrows_, ncols_, n_, mm_alloc>>
    /\ mm_frame

\* read_el_(r)
MmBody ==
    /\ mm_pc = "body"
    /\ \E g \in Garbage :
          \E c \in {SeqReadFrom(mm_d, g)} :
            /\ m_' = c.m /\ x_' = c.x /\ y_' = c.y /\ w_' = c.w
            /\ nrows_' = c.nrows /\ ncols_' = c.ncols /\ n_' = c.n
    /\ mm_alloc' = TRUE
    /\ mm_pc' = "check"
    /\ UNCHANGED <<mm_d, mm_hdr, mm_err>>
    /\ mm_frame

\* the throw of the non-zero check, "none" if none is made
nnz_error(nnz, m) ==
    IF sym THEN (IF nnz > 2 * m THEN "nnz" ELSE "none")
    ELSE IF ~sl THEN (IF nnz > m THEN "nnz" ELSE "none")
    ELSE (IF nnz # m /\ ~sl THEN "nnz" ELSE "none")

\* the sanity checks after read_el_; free() releases the arrays
MmCheck ==
    /\ mm_pc = "check"
    /\ LET rows_ok == mm_hdr.nrows >= nrows_
           cols_ok == mm_hdr.ncols >= ncols_
           er == IF ~rows_ok THEN "rows"
                 ELSE IF ~cols_ok THEN "cols"
                 ELSE nnz_error(mm_hdr.nnz, m_)
       IN  /\ mm_err' = er
           /\ nrows_' = IF rows_ok THEN mm_hdr.nrows ELSE nrows_
           /\ ncols_' = IF rows_ok /\ cols_ok THEN mm_hdr.ncols ELSE ncols_
           /\ IF er # "none"
              THEN /\ mm_pc' = "error"
                   /\ x_' = NoArray /\ y_' = NoArray /\ w_' = NoArray
                   /\ UNCHANGED n_
              ELSE /\ mm_pc' = "done"
                   /\ n_' = IF mm_hdr.nrows > mm_hdr.ncols THEN mm_hdr.nrows ELSE mm_hdr.ncols
                   /\ UNCHANGED <<x_, y_, w_>>
    /\ UNCHANGED <<m_, mm_d, mm_hdr, mm_alloc>>
    /\ mm_frame

MmNext == MmHeader \/ MmBody \/ MmCheck

SpecMM == MmInit /\ [][MmNext]_vars

\* C13: when read_mm_ returns successfully every X[i] <= nrows_hdr and every
\* Y[i] <= ncols_hdr under every flag combination (a stored index beyond the
\* header's dimensions is an error), and the arrays are freed when the
\* dimension check fails.
C13_HeaderBoundsBody ==
    /\ mm_pc = "done" =>
          /\ \A i \in DOMAIN x_ : x_[i] <= mm_in.size.nrows
          /\ \A i \in DOMAIN y_ : y_[i] <= mm_in.size.ncols
    /\ (mm_pc = "error" /\ mm_err \in {"rows", "cols"}) =>
          (x_ = NoArray /\ y_ = NoArray /\ w_ = NoArray)

\* what C14 requires of the header's non-zero count nnz for m entries
NnzRequired(nnz, m) ==
    IF sym THEN nnz <= 2 * m
    ELSE IF ~sl THEN nnz <= m
    ELSE nnz = m

\* C14: after the edge-list pass read_mm_ requires nnz_hdr <= 2m with SYM,
\* nnz_hdr <= m without SYM and without SL, nnz_hdr = m without SYM and with
\* SL; when the requirement fails the arrays are freed and an error is raised.
C14_NnzCheck ==
    /\ mm_pc = "done" => NnzRequired(mm_in.size.nnz, m_)
    /\ (mm_pc = "error" /\ mm_err = "nnz") =>
          /\ ~NnzRequired(mm_in.size.nnz, m_)
          /\ x_ = NoArray /\ y_ = NoArray /\ w_ = NoArray

\* the input is one that C15 says read_mm_ rejects
MmRejected ==
    \/ mm_in.head.banner # mm_banner
    \/ mm_in.head.field = w_pattern /\ wgt
    \/ mm_in.head.field = w_complex
    \/ mm_in.head.symmetry \notin {w_general, w_symmetric, w_skew_symmetric}

SmallLabels ==
    /\ lines # <<>>
    /\ \A i \in DOMAIN lines :
          lines[i].x < mm_in.size.nrows /\ lines[i].y < mm_in.size.ncols

\* C29: whenever read_mm_ returns, nrows is the header's nrows plus one,
\* ncols the header's ncols plus one and n the larger of the two, whatever
\* the labels of the body are.
C29_CountsFromHeader ==
    mm_pc = "done" =>
        /\ nrows_ = (mm_in.size.nrows + 1) % LMod
        /\ ncols_ = (mm_in.size.ncols + 1) % LMod
        /\ n_ = Max(nrows_, ncols_)

\* read_mm_ returned for a file whose labels are all smaller than the
\* header's counts: read_el_ alone would have left nrows = ncols = 2
C29_Witness ==
    /\ mm_pc = "done"
    /\ SmallLabels
    /\ m_ >= 1
    /\ mm_in.size.nrows = 2
    /\ mm_in.size.ncols = 2
    /\ nrows_ = 3

-----------------------------------------------------------------------------
(* read_mm_ on two files that differ in the symmetry token only: the read  *)
(* of the first, then the read of the second into a new COO of the same    *)
(* template flags.                                                         *)

\* the symmetry tokens read_mm_ accepts
MmTokens == {w_general, w_symmetric, w_skew_symmetric}

\* the headers of the pairs: every accepted token, with and without weights
\* in the file
MmPairHeads ==
    {[banner |-> mm_banner, field |-> f, symmetry |-> y, cmt |-> FALSE] :
        f \in {w_integer, w_pattern}, y \in MmTokens}

MmPairInit == MmInitOf(MmPairHeads)

\* what a finished read_mm_ leaves
MmOutcome ==
    [ok |-> mm_pc = "done", m |-> m_, x |-> x_, y |-> y_, w |-> w_,
     nrows |-> nrows_, ncols |-> ncols_, n |-> n_]

\* the outcome is kept and the second file is read: the same bytes with
\* another symmetry token, into a new COO
MmRetoken ==
    /\ mm_pc \in {"done", "error"}
    /\ mm_first = <<>>
    /\ mm_first' = MmOutcome
    /\ \E y \in MmTokens \ {mm_in.head.symmetry} :
          /\ mm_in' = [mm_in EXCEPT !.head.symmetry = y]
          /\ buf' = MmText(mm_in'.head, mm_in'.size, lines, wkind)
    /\ m_' = 0 /\ x_' = NoArray /\ y_' = NoArray /\ w_' = NoArray
    /\ nrows_' = 0 /\ ncols_' = 0 /\ n_' = 0
    /\ mm_pc' = "header"
    /\ mm_d' = 0
    /\ mm_hdr' = <<>>
    /\ mm_err' = "none"
    /\ mm_alloc' = FALSE
    /\ UNCHANGED <<lines, finalNL, sym, ut, sl, wkind, num_threads, pc, wpc, rs,
                   nl_offsets, rs_p2, coord_pos, max_row, max_col,
                   org, wr_x, wr_y, wr_w, oob, seen, bin_vars, tw_vars, cv_vars,
                   alt_vars, gf_vars, sp_vars, sc_vars, fm_vars, rest_vars>>

MmPairNext == MmHeader \/ MmBody \/ MmCheck \/ MmRetoken

SpecMMPair == MmPairInit /\ [][MmPairNext]_vars

\* both reads are finished
BothRead == mm_first # <<>> /\ mm_pc \in {"done", "error"}

C28_WitnessBothFail ==
    /\ BothRead
    /\ mm_pc = "error"
    /\ ~mm_first.ok

-----------------------------------------------------------------------------
(* File::guess_file_type on a file of given bytes and name.                *)

\* "PIGO-CSR-v2"
csr_file_header == <<80, 73, 71, 79, 45, 67, 83, 82, 45, 118, 50>>

\* "PIGO-DiGraph-v2"
digraph_file_header == <<80, 73, 71, 79, 45, 68, 105, 71, 114, 97, 112, 104, 45, 118, 50>>

\* "PIGO-Tensor-v1"
tensor_file_header == <<80, 73, 71, 79, 45, 84, 101, 110, 115, 111, 114, 45, 118, 49>>

\* "PIGO"
pigo_prefix == <<80, 73, 71, 79>>

ext_mtx == <<".", "m", "t", "x">>

ext_g == <<".", "g", "r", "a", "p", "h">>

\* the longest run of bytes that follows the first bytes of a generated file
MaxTail == 2

\* whether the name fn ends with ext
has_suffix(fn, ext) ==
    Len(fn) >= Len(ext) /\ SubSeq(fn, Len(fn) - Len(ext) + 1, Len(fn)) = ext

\* File::guess_file_type: the FileType returned, "throw" when it throws
guess_file_type(data, fn) ==
    LET end == Cardinality(DOMAIN data)
    IN  IF at_str(data, 0, end, coo_file_header) THEN "PIGO_COO_BIN"
        ELSE IF at_str(data, 0, end, csr_file_header) THEN "PIGO_CSR_BIN"
        ELSE IF at_str(data, 0, end, digraph_file_header) THEN "PIGO_DIGRAPH_BIN"
        ELSE IF at_str(data, 0, end, tensor_file_header) THEN "PIGO_TENSOR_BIN"
        ELSE IF at_str(data, 0, end, pigo_prefix) THEN "throw"
        ELSE IF has_suffix(fn, ext_mtx) THEN "MATRIX_MARKET"
        ELSE IF has_suffix(fn, ext_g) THEN "GRAPH"
        ELSE "EDGE_LIST"

\* the first bytes of the generated files: the four headers, "PIGO" alone
\* and followed by other text, a cut header, and text that is no header
GfHeads ==
    {coo_file_header, csr_file_header, digraph_file_header, tensor_file_header,
     pigo_prefix, pigo_prefix \o <<45, 88>>, SubSeq(pigo_prefix, 1, 3),
     <<49, 32, 50>>, <<37, 37, 77>>}

\* the generated files: one of the heads followed by 0 to MaxTail bytes "1"
GfFiles ==
    {[i \in 0..(Len(h) + k - 1) |-> IF i < Len(h) THEN h[i + 1] ELSE 49] :
        h \in GfHeads, k \in 0..MaxTail}

\* the names of the generated files
GfNames ==
    {<<"a">> \o ext_mtx, <<"a">> \o ext_g, ext_mtx, <<"m", "t", "x">>,
     <<"a">> \o ext_mtx \o <<".", "e", "l">>, <<"a", ".", "e", "l">>,
     <<"a">> \o ext_g \o ext_mtx, <<"g">>}

GfInit ==
    /\ ElIdle
    /\ BinIdle
    /\ TwIdle
    /\ CvIdle
    /\ MmIdle
    /\ AltIdle
    /\ SpIdle
    /\ ScIdle
    /\ FmIdle
    /\ RestIdle
    /\ gf_pc = "init"
    /\ gf_data \in GfFiles
    /\ gf_fn \in GfNames
    /\ gf_type = "none"

\* f.guess_file_type()
Guess ==
    /\ gf_pc = "init"
    /\ \E r \in {guess_file_type(gf_data, gf_fn)} :
          IF r = "throw"
          THEN gf_pc' = "error" /\ UNCHANGED gf_type
          ELSE gf_pc' = "done" /\ gf_type' = r
    /\ UNCHANGED <<gf_data, gf_fn>>
    /\ UNCHANGED <<el_vars, bin_vars, tw_vars, cv_vars, mm_vars, alt_vars, sp_vars, sc_vars, fm_vars, rest_vars>>

GfNext == Guess

SpecGuess == GfInit /\ [][GfNext]_vars

\* whether the file begins with the bytes str
BeginsWith(data, str) ==
    Cardinality(DOMAIN data) >= Len(str) /\ \A j \in 1..Len(str) : data[j - 1] = str[j]

\* the precedence of C19: the result for a file of the given bytes and name
Precedence(data, fn) ==
    IF BeginsWith(data, coo_file_header) THEN "PIGO_COO_BIN"
    ELSE IF BeginsWith(data, csr_file_header) THEN "PIGO_CSR_BIN"
    ELSE IF BeginsWith(data, digraph_file_header) THEN "PIGO_DIGRAPH_BIN"
    ELSE IF BeginsWith(data, tensor_file_header) THEN "PIGO_TENSOR_BIN"
    ELSE IF BeginsWith(data, pigo_prefix) THEN "throw"
    ELSE IF has_suffix(fn, ext_mtx) THEN "MATRIX_MARKET"
    ELSE IF has_suffix(fn, ext_g) THEN "GRAPH"
    ELSE "EDGE_LIST"

\* C19: guess_file_type returns the matching binary type when the file
\* begins with one of the four magic strings, whatever the suffix; otherwise
\* it fails with the unsupported-format error when the file begins with
\* "PIGO"; otherwise suffix .mtx gives MatrixMarket, suffix .graph the
\* adjacency-graph format, and anything else edge-list text.
C19_Precedence ==
    gf_pc \in {"done", "error"} =>
        (IF gf_pc = "error" THEN "throw" ELSE gf_type) = Precedence(gf_data, gf_fn)

\* C19 for the files that are longer than the magic string they begin with
C19_PrecedenceOfLongerFiles ==
    (/\ gf_pc \in {"done", "error"}
     /\ \A h \in {coo_file_header, csr_file_header, digraph_file_header,
                  tensor_file_header, pigo_prefix} :
            BeginsWith(gf_data, h) => Cardinality(DOMAIN gf_data) > Len(h)) =>
        (IF gf_pc = "error" THEN "throw" ELSE gf_type) = Precedence(gf_data, gf_fn)

-----------------------------------------------------------------------------
(* COO::split_cvs_write(fn, edge_per_file, edgeIDs) on the threads of the  *)
(* OpenMP team: one pass of the loop over start per file, two parallel     *)
(* passes over the edges of the file.                                      *)

\* the largest edge_per_file
MaxPerFile == 2

\* "~id,~from,~to,~label\n"
header_ids == <<"~", "i", "d", ",", "~", "f", "r", "o", "m", ",", "~", "t", "o", ",", "~", "l", "a", "b", "e", "l">> \o <<NL>>

\* "~from,~to,~label\n"
header_plain == <<"~", "f", "r", "o", "m", ",", "~", "t", "o", ",", "~", "l", "a", "b", "e", "l">> \o <<NL>>

\* ",con\n"
line_end == <<",", "c", "o", "n", NL>>

\* header
sp_header == IF sp_in.ids THEN header_ids ELSE header_plain

\* ell
sp_ell == Len(line_end) + (IF sp_in.ids THEN 2 ELSE 0) + 3

\* end of the file that starts at edge start
sp_end(start) == Min(sp_in.m, start + sp_in.k)

\* ofname for the file count fcnt
ofname(fn, fcnt) == fn \o <<".">> \o ascii_digits(fcnt) \o <<".", "c", "s", "v">>

\* what Pass 1 adds to my_size for edge e
sp_edge_size(e) ==
    sp_ell + (IF sp_in.ids THEN write_size(e) ELSE 0)
        + write_size(sp_in.x[e]) + write_size(sp_in.y[e])

\* what Pass 2 writes for edge e
sp_edge_text(e) ==
    (IF sp_in.ids THEN <<"e">> \o write_ascii(e) \o <<",">> ELSE <<>>)
        \o <<"v">> \o write_ascii(sp_in.x[e]) \o <<",">>
        \o <<"v">> \o write_ascii(sp_in.y[e]) \o line_end

RECURSIVE sp_chunk_size(_, _)
sp_chunk_size(lo, hi) ==
    IF lo >= hi THEN 0 ELSE sp_edge_size(lo) + sp_chunk_size(lo + 1, hi)

RECURSIVE sp_chunk_text(_, _)
sp_chunk_text(lo, hi) ==
    IF lo >= hi THEN <<>> ELSE sp_edge_text(lo) \o sp_chunk_text(lo + 1, hi)

\* the first edge of thread t in "#pragma omp for" over start..end-1
sp_lo(t) == sp_start + ChunkLo(t, sp_end(sp_start) - sp_start, sp_in.nt)

\* one past the last edge of thread t
sp_hi(t) == sp_start + ChunkHi(t, sp_end(sp_start) - sp_start, sp_in.nt)

SpThreads == 0..(sp_in.nt - 1)

\* the COOs written and the arguments: m <= MaxEdges edges with labels of
\* one and two digits, edge_per_file from 1 to MaxPerFile
SpInputs ==
    UNION {
        {[m |-> m, x |-> x, y |-> y, k |-> k, ids |-> ids, nt |-> nt, fn |-> <<"g">>] :
            x \in [0..(m - 1) -> {3, 12}], y \in [0..(m - 1) -> {3, 12}],
            k \in 1..MaxPerFile, ids \in BOOLEAN, nt \in 1..MaxThreads} :
        m \in 0..MaxEdges}

SpInit ==
    /\ ElIdle
    /\ BinIdle
    /\ TwIdle
    /\ CvIdle
    /\ MmIdle
    /\ AltIdle
    /\ GfIdle
    /\ ScIdle
    /\ FmIdle
    /\ RestIdle
    /\ sp_pc = "loop"
    /\ sp_in \in SpInputs
    /\ sp_start = 0
    /\ sp_fcnt = 0
    /\ sp_at = <<>>
    /\ sp_offsets = <<>>
    /\ sp_f = <<>>
    /\ sp_files = <<>>

sp_frame == UNCHANGED <<el_vars, bin_vars, tw_vars, cv_vars, mm_vars, alt_vars, gf_vars, sc_vars, fm_vars, rest_vars, sp_in>>

\* the test start <= m_ of the loop: the next file is begun, or the call returns
SpLoop ==
    /\ sp_pc = "loop"
    /\ IF sp_start <= sp_in.m
       THEN /\ sp_pc' = "pass1"
            /\ sp_f' = [name |-> ofname(sp_in.fn, sp_fcnt), data |-> <<>>]
            /\ sp_fcnt' = sp_fcnt + 1
            /\ sp_offsets' = [i \in 0..sp_in.nt |-> 0]
            /\ sp_at' = [t \in SpThreads |-> "p1"]
       ELSE /\ sp_pc' = "done"
            /\ UNCHANGED <<sp_f, sp_fcnt, sp_offsets, sp_at>>
    /\ UNCHANGED <<sp_start, sp_files>>
    /\ sp_frame

\* Pass 1 of thread t: the size of what it will write
SpPass1(t) ==
    /\ sp_pc = "pass1"
    /\ sp_at[t] = "p1"
    /\ sp_offsets' = [sp_offsets EXCEPT ![t + 1] = sp_chunk_size(sp_lo(t), sp_hi(t))]
    /\ sp_at' = [sp_at EXCEPT ![t] = "bar"]
    /\ UNCHANGED <<sp_pc, sp_start, sp_fcnt, sp_f, sp_files>>
    /\ sp_frame

\* the single block: the prefix sum, the new file and its header
SpSingle ==
    /\ sp_pc = "pass1"
    /\ \A t \in SpThreads : sp_at[t] = "bar"
    /\ \E sums \in {[i \in 0..sp_in.nt |->
                        IF i = 0 THEN 0
                        ELSE PrefixSum([j \in 0..(i - 1) |-> sp_offsets[j + 1]], i - 1)]} :
          /\ sp_offsets' = sums
          /\ sp_f' = [sp_f EXCEPT !.data =
                        StoreText(NewTextFile(Len(sp_header) + sums[sp_in.nt]), 0, sp_header)]
    /\ sp_pc' = "pass2"
    /\ sp_at' = [t \in SpThreads |-> "p2"]
    /\ UNCHANGED <<sp_start, sp_fcnt, sp_files>>
    /\ sp_frame

\* Pass 2 of thread t: it writes its edges from f->fp() + pos_offsets[tid] on
SpPass2(t) ==
    /\ sp_pc = "pass2"
    /\ sp_at[t] = "p2"
    /\ sp_f' = [sp_f EXCEPT !.data =
                  StoreText(sp_f.data, Len(sp_header) + sp_offsets[t],
                            sp_chunk_text(sp_lo(t), sp_hi(t)))]
    /\ sp_at' = [sp_at EXCEPT ![t] = "fin"]
    /\ UNCHANGED <<sp_pc, sp_start, sp_fcnt, sp_offsets, sp_files>>
    /\ sp_frame

\* the end of the loop body: the file is closed, start += edge_per_file
SpClose ==
    /\ sp_pc = "pass2"
    /\ \A t \in SpThreads : sp_at[t] = "fin"
    /\ sp_files' = Append(sp_files, sp_f)
    /\ sp_start' = sp_start + sp_in.k
    /\ sp_pc' = "loop"
    /\ UNCHANGED <<sp_fcnt, sp_at, sp_offsets, sp_f>>
    /\ sp_frame

SpNext ==
    \/ SpLoop
    \/ \E t \in 0..(MaxThreads - 1) : t \in SpThreads /\ SpPass1(t)
    \/ SpSingle
    \/ \E t \in 0..(MaxThreads - 1) : t \in SpThreads /\ SpPass2(t)
    \/ SpClose

SpecSplit == SpInit /\ [][SpNext]_vars

\* the record of edge i as C20 gives it: [e<i>,]v<x>,v<y>,con
SplitRecord(i) ==
    (IF sp_in.ids THEN <<"e">> \o FmtNat(i) \o <<",">> ELSE <<>>)
        \o <<"v">> \o FmtNat(sp_in.x[i]) \o <<",", "v">> \o FmtNat(sp_in.y[i])
        \o <<",", "c", "o", "n", NL>>

RECURSIVE SplitRecords(_, _)
SplitRecords(lo, hi) == IF lo >= hi THEN <<>> ELSE SplitRecord(lo) \o SplitRecords(lo + 1, hi)

\* file j as C20 gives it: the header line, then the records j*k .. min(m,(j+1)*k)-1
SplitFile(j) ==
    [name |-> sp_in.fn \o <<".">> \o FmtNat(j) \o <<".", "c", "s", "v">>,
     data |-> sp_header \o SplitRecords(j * sp_in.k, Min(sp_in.m, (j + 1) * sp_in.k))]

\* ceil(m / k)
CeilDiv(m, k) == (m + k - 1) \div k

\* C20: split_cvs_write with edges_per_file = k >= 1 on a COO with m edges
\* writes files <base>.0.csv, <base>.1.csv, ...; file j holds the header line
\* followed by exactly the records j*k .. min(m,(j+1)*k)-1 in order, each
\* formatted [e<i>,]v<x>,v<y>,con, and the number of files is ceil(m / k).
C20_SplitFiles ==
    sp_pc = "done" =>
        /\ \A j \in 1..Len(sp_files) : sp_files[j] = SplitFile(j - 1)
        /\ Len(sp_files) = CeilDiv(sp_in.m, sp_in.k)

\* the contents of C20 without the number of files
C20_SplitFileContents ==
    sp_pc = "done" => \A j \in 1..Len(sp_files) : sp_files[j] = SplitFile(j - 1)

\* the number of files that split_cvs_write does write: m \div k + 1
C20_SplitFileCount ==
    sp_pc = "done" => Len(sp_files) = (sp_in.m \div sp_in.k) + 1

-----------------------------------------------------------------------------
(* One scanning primitive of FileReader called with the reader at d <= end *)
(* in a region that ends at end, the file going on after end (the region   *)
(* of the next thread).  The same call is made again after the bytes from  *)
(* end on have been replaced.                                              *)

\* the longest generated file
MaxScan == 3

\* the bytes of the generated files
ScanChars == {"1", " ", NL, "%", "-", "."}

\* the first inner loop of count_spaces_to_eol
RECURSIVE spaces_to_int(_, _)
spaces_to_int(d, end) ==
    IF d < end /\ Peek(d) # NL /\ ~IsComment(Peek(d)) /\ ~IsDigit(Peek(d))
    THEN spaces_to_int(d + 1, end) ELSE d

\* the second inner loop of count_spaces_to_eol
RECURSIVE spaces_through_int(_, _)
spaces_through_int(d, end) ==
    IF d < end /\ (IsDigit(Peek(d)) \/ Peek(d) = ".")
    THEN spaces_through_int(d + 1, end) ELSE d

\* while (*d == ' ') { ++d; }
RECURSIVE pass_spaces(_)
pass_spaces(d) == IF Peek(d) = " " THEN pass_spaces(d + 1) ELSE d

\* FileReader::count_spaces_to_eol from the test of its outer loop on:
\* [d, ct], the new position and space_ct
RECURSIVE spaces_loop(_, _, _)
spaces_loop(d, end, ct) ==
    IF ~(d < end /\ Peek(d) # NL) THEN [d |-> d, ct |-> ct]
    ELSE
    With(spaces_to_int(d, end), LAMBDA d1 :
    IF ~IsDigit(Peek(d1)) THEN [d |-> move_to_eol(d1, end), ct |-> ct]
    ELSE
    With(spaces_through_int(d1, end), LAMBDA d2 :
    IF Peek(d2) = NL THEN [d |-> d2, ct |-> ct]
    ELSE IF IsComment(Peek(d2)) THEN [d |-> move_to_eol(d2, end), ct |-> ct]
    ELSE
    With(pass_spaces(d2), LAMBDA d3 :
    IF Peek(d3) = NL THEN [d |-> d3, ct |-> ct]
    ELSE IF IsComment(Peek(d3)) THEN [d |-> move_to_eol(d3, end), ct |-> ct]
    ELSE spaces_loop(d3, end, ct + 1))))

count_spaces_to_eol(d, end) == spaces_loop(d, end, 0)

\* the while loop of move_to_next_int_or_nl
RECURSIVE int_or_nl_loop(_, _)
int_or_nl_loop(d, end) ==
    IF d < end /\ ~IsDigit(Peek(d)) /\ Peek(d) # NL
    THEN IF IsComment(Peek(d + 1))
         THEN skip_comments(d + 1, end) - 1
         ELSE int_or_nl_loop(d + 1, end)
    ELSE d

\* FileReader::move_to_next_int_or_nl
move_to_next_int_or_nl(d, end) ==
    LET at_int == d < end /\ IsDigit(Peek(d))
    IN  With(move_to_non_int(d, end), LAMBDA d1 :
        IF d1 < end /\ Peek(d1) = NL /\ at_int THEN d1
        ELSE
        With(IF d1 < end /\ Peek(d1) = NL THEN d1 + 1 ELSE d1, LAMBDA d2 :
        IF IsComment(Peek(d2)) THEN skip_comments(d2, end) - 1
        ELSE int_or_nl_loop(d2, end)))

\* the primitives called
ScanPrims ==
    {"move_to_first_int", "move_to_next_int", "move_to_next_signed_int",
     "read_fp", "count_spaces_to_eol", "move_to_next_int_or_nl"}

\* d after the primitive p is called with the reader at d
Scan(p, d, end) ==
    CASE p = "move_to_first_int" -> move_to_first_int(d, end)
      [] p = "move_to_next_int" -> move_to_next_int(d, end)
      [] p = "move_to_next_signed_int" -> move_to_next_signed_int(d, end)
      [] p = "read_fp" -> read_fp(d, end).d
      [] p = "count_spaces_to_eol" -> count_spaces_to_eol(d, end).d
      [] p = "move_to_next_int_or_nl" -> move_to_next_int_or_nl(d, end)

\* the generated files: up to MaxScan bytes
ScanBufs == UNION {[1..n -> ScanChars] : n \in 0..MaxScan}

ScInit ==
    /\ lines = <<>>
    /\ finalNL = TRUE
    /\ buf \in ScanBufs
    /\ sym = FALSE /\ ut = FALSE /\ sl = FALSE
    /\ wkind = "none"
    /\ num_threads = 1
    /\ pc = "off"
    /\ wpc = <<>> /\ rs = <<>> /\ nl_offsets = <<>>
    /\ m_ = 0 /\ x_ = NoArray /\ y_ = NoArray /\ w_ = NoArray
    /\ nrows_ = 0 /\ ncols_ = 0 /\ n_ = 0
    /\ rs_p2 = <<>> /\ coord_pos = <<>> /\ max_row = <<>> /\ max_col = <<>>
    /\ org = NoArray /\ wr_x = NoArray /\ wr_y = NoArray /\ wr_w = NoArray
    /\ oob = {} /\ seen = <<>>
    /\ BinIdle
    /\ TwIdle
    /\ CvIdle
    /\ MmIdle
    /\ AltIdle
    /\ GfIdle
    /\ SpIdle
    /\ FmIdle
    /\ RestIdle
    /\ sc_pc = "init"
    /\ sc_prim \in ScanPrims
    /\ sc_end \in 0..Len(buf)
    /\ sc_d \in 0..sc_end
    /\ sc_alt \in {" ", "-", "%"}
    /\ sc_r1 = 0
    /\ sc_r2 = 0

sc_frame ==
    UNCHANGED <<lines, finalNL, sym, ut, sl, wkind, num_threads, pc, wpc, rs,
                nl_offsets, m_, x_, y_, w_, nrows_, ncols_, n_, rs_p2, coord_pos,
                max_row, max_col, org, wr_x, wr_y, wr_w, oob, seen,
                bin_vars, tw_vars, cv_vars, mm_vars, alt_vars, gf_vars, sp_vars, fm_vars, rest_vars,
                sc_prim, sc_d, sc_end, sc_alt>>

\* the primitive is called
ScanOne ==
    /\ sc_pc = "init"
    /\ sc_r1' = Scan(sc_prim, sc_d, sc_end)
    /\ sc_pc' = "one"
    /\ UNCHANGED <<buf, sc_r2>>
    /\ sc_frame

\* the bytes of the file from end on become sc_alt
ScanOverwrite ==
    /\ sc_pc = "one"
    /\ buf' = [i \in 1..Len(buf) |-> IF i > sc_end THEN sc_alt ELSE buf[i]]
    /\ sc_pc' = "other"
    /\ UNCHANGED <<sc_r1, sc_r2>>
    /\ sc_frame

\* the same call on the file as it is now
ScanAgain ==
    /\ sc_pc = "other"
    /\ sc_r2' = Scan(sc_prim, sc_d, sc_end)
    /\ sc_pc' = "done"
    /\ UNCHANGED <<buf, sc_r1>>
    /\ sc_frame

ScNext == ScanOne \/ ScanOverwrite \/ ScanAgain

SpecScan == ScInit /\ [][ScNext]_vars

\* C21: every scanning primitive is bounds-checked against end: called at a
\* position d <= end it leaves the cursor at a position <= end, and it reads
\* no byte at a position >= end, so that what it does is the same whatever
\* those bytes are.
C21_ScannersBounded ==
    /\ sc_pc \in {"one", "other", "done"} => sc_r1 <= sc_end
    /\ sc_pc = "done" => (sc_r2 <= sc_end /\ sc_r2 = sc_r1)

-----------------------------------------------------------------------------
(* write_size and write_ascii applied to one value of an integral type:    *)
(* the unsigned 16-bit labels and the signed 16-bit weights.               *)

\* the values 0..MaxFmt are formatted, and the powers of ten and the ends of
\* the types
MaxFmt == 20

\* the values of the unsigned type
FmtUnsigned ==
    (0..MaxFmt) \cup {99, 100, 101, 258, 999, 1000, 9999, 10000, 32767, 32768, 65535}

\* the values of the signed type
FmtSigned ==
    (0..MaxFmt) \cup {99, 100, 101, 999, 1000, 9999, 10000, 32767}
        \cup {0 - v : v \in (1..MaxFmt) \cup {99, 100, 101, 999, 1000, 9999, 10000, 32767}}
        \cup {W_min}

FmInit ==
    /\ ElIdle
    /\ BinIdle
    /\ TwIdle
    /\ CvIdle
    /\ MmIdle
    /\ AltIdle
    /\ GfIdle
    /\ SpIdle
    /\ ScIdle
    /\ RestIdle
    /\ fm_pc = "init"
    /\ fm_v \in FmtUnsigned \cup FmtSigned
    /\ fm_size = 0
    /\ fm_out = <<>>

fm_frame == UNCHANGED <<el_vars, bin_vars, tw_vars, cv_vars, mm_vars, alt_vars, gf_vars, sp_vars, sc_vars, rest_vars, fm_v>>

\* write_size(v)
FmSize ==
    /\ fm_pc = "init"
    /\ fm_size' = write_size(fm_v)
    /\ fm_pc' = "sized"
    /\ UNCHANGED fm_out
    /\ fm_frame

\* write_ascii(fp, v)
FmAscii ==
    /\ fm_pc = "sized"
    /\ fm_out' = write_ascii(fm_v)
    /\ fm_pc' = "written"
    /\ UNCHANGED fm_size
    /\ fm_frame

FmNext == FmSize \/ FmAscii

SpecFmt == FmInit /\ [][FmNext]_vars

\* the canonical decimal representation of v
Canonical(v) == (IF v < 0 THEN <<"-">> ELSE <<>>) \o FmtNat(IF v < 0 THEN 0 - v ELSE v)

\* C31: for every value v of an integer type, the smallest value of a signed
\* type included, write_ascii(v) emits exactly write_size(v) bytes, and they
\* are the canonical decimal representation of v: a '-' for a negative
\* value, then the digits with no leading zero, 0 being the one digit '0'.
C31_AsciiIsCanonical ==
    fm_pc = "written" =>
        /\ Len(fm_out) = fm_size
        /\ fm_out = Canonical(fm_v)

\* C31 holds for every value but the smallest of the signed type
C31_ExceptSmallest ==
    fm_v # W_min => C31_AsciiIsCanonical

-----------------------------------------------------------------------------
(* One call of parallel_write or parallel_read of v_size bytes on nt       *)
(* threads, each thread's memcpy being one step.                           *)

\* the largest v_size
MaxBytes == 7

CpInit ==
    /\ ElIdle
    /\ BinIdle
    /\ TwIdle
    /\ CvIdle
    /\ MmIdle
    /\ AltIdle
    /\ GfIdle
    /\ SpIdle
    /\ ScIdle
    /\ FmIdle
    /\ RdIdle
    /\ LpIdle
    /\ cp_pc = "copy"
    /\ cp_in \in {[kind |-> k, n |-> n, nt |-> nt, fp |-> fp] :
                    k \in {"parallel_write", "parallel_read"},
                    n \in 0..MaxBytes, nt \in 1..MaxThreads, fp \in {0, 11}}
    /\ cp_done = {}
    /\ cp_bytes = {}
    /\ cp_fp = cp_in.fp

cp_frame ==
    UNCHANGED <<el_vars, bin_vars, tw_vars, cv_vars, mm_vars, alt_vars, gf_vars,
                sp_vars, sc_vars, fm_vars, rd_vars, lp_vars, cp_in>>

\* the body of the parallel region for thread t: my_data, start_pos, memcpy
CpThread(t) ==
    /\ cp_pc = "copy"
    /\ t \in (0..(cp_in.nt - 1)) \ cp_done
    /\ \E sp \in {start_pos(t, cp_in.n, cp_in.nt)}, md \in {my_data(t, cp_in.n, cp_in.nt)} :
          cp_bytes' = cp_bytes \cup {[t |-> t, i |-> i] : i \in sp..(sp + md - 1)}
    /\ cp_done' = cp_done \cup {t}
    /\ UNCHANGED <<cp_pc, cp_fp>>
    /\ cp_frame

\* the end of the parallel region: fp += v_size
CpEnd ==
    /\ cp_pc = "copy"
    /\ cp_done = 0..(cp_in.nt - 1)
    /\ cp_fp' = cp_fp + cp_in.n
    /\ cp_pc' = "done"
    /\ UNCHANGED <<cp_done, cp_bytes>>
    /\ cp_frame

CpNext == (\E t \in 0..(MaxThreads - 1) : CpThread(t)) \/ CpEnd

SpecCopy == CpInit /\ [][CpNext]_vars

\* the offsets thread t copied
CopiedBy(t) == {s.i : s \in {r \in cp_bytes : r.t = t}}

\* C32: in parallel_write and parallel_read, for every byte count n >= 0 and
\* every number of threads (n smaller than it or not a multiple of it
\* included), the ranges the threads copy are pairwise disjoint, their union
\* is exactly [0, n), and afterwards the cursor has advanced by n.
C32_CopyPartition ==
    /\ cp_pc \in {"copy", "done"} =>
          /\ \A s \in cp_bytes : 0 <= s.i /\ s.i < cp_in.n
          /\ \A t, u \in cp_done : t # u => CopiedBy(t) \cap CopiedBy(u) = {}
    /\ cp_pc = "copy" => cp_fp = cp_in.fp
    /\ cp_pc = "done" =>
          /\ UNION {CopiedBy(t) : t \in cp_done} = 0..(cp_in.n - 1)
          /\ cp_fp = cp_in.fp + cp_in.n

\* a finished copy of 5 bytes on 3 threads, the last of which copied 3
C32_Witness ==
    /\ cp_pc = "done"
    /\ cp_in.n = 5
    /\ cp_in.nt = 3
    /\ Cardinality(CopiedBy(2)) = 3
    /\ Cardinality(CopiedBy(0)) = 1

\* a finished copy of fewer bytes than there are threads
C32_WitnessFewBytes ==
    /\ cp_pc = "done"
    /\ cp_in.n = 2
    /\ cp_in.nt = 3
    /\ CopiedBy(0) = {} /\ CopiedBy(1) = {}
    /\ CopiedBy(2) = {0, 1}

-----------------------------------------------------------------------------
(* COO::read_: the FileType used and the loader it selects.  The loaders   *)
(* themselves are the subject of the other specifications; here the call   *)
(* is recorded.                                                            *)

\* the values of FileType a COO can be constructed with
FileTypes ==
    {"AUTO", "MATRIX_MARKET", "EDGE_LIST", "PIGO_COO_BIN", "PIGO_CSR_BIN",
     "PIGO_DIGRAPH_BIN", "PIGO_TENSOR_BIN", "GRAPH"}

\* the branch of COO::read_ taken for ft_used
read_dispatch(ft_used) ==
    IF ft_used = "MATRIX_MARKET" THEN "read_mm_"
    ELSE IF ft_used = "EDGE_LIST" THEN "read_el_"
    ELSE IF ft_used = "PIGO_COO_BIN" THEN "read_bin_"
    ELSE IF ft_used = "PIGO_CSR_BIN" \/ ft_used = "GRAPH" THEN "CSR, convert_csr_"
    ELSE "NotYetImplemented"

RdInit ==
    /\ ElIdle
    /\ BinIdle
    /\ TwIdle
    /\ CvIdle
    /\ MmIdle
    /\ AltIdle
    /\ GfIdle
    /\ SpIdle
    /\ ScIdle
    /\ FmIdle
    /\ CpIdle
    /\ LpIdle
    /\ rd_pc = "init"
    /\ rd_in \in {[ft |-> ft, data |-> f, fn |-> fn] :
                    ft \in FileTypes, f \in GfFiles, fn \in GfNames}
    /\ rd_used = "none"
    /\ rd_call = "none"

rd_frame ==
    UNCHANGED <<el_vars, bin_vars, tw_vars, cv_vars, mm_vars, alt_vars, gf_vars,
                sp_vars, sc_vars, fm_vars, cp_vars, lp_vars, rd_in>>

\* ft_used = ft, or f.guess_file_type() when ft is AUTO
RdType ==
    /\ rd_pc = "init"
    /\ \E r \in {IF rd_in.ft = "AUTO"
                 THEN guess_file_type(rd_in.data, rd_in.fn)
                 ELSE rd_in.ft} :
          IF r = "throw"
          THEN rd_pc' = "error" /\ rd_call' = "Error" /\ UNCHANGED rd_used
          ELSE rd_pc' = "type" /\ rd_used' = r /\ UNCHANGED rd_call
    /\ rd_frame

\* the if-else chain of COO::read_ on ft_used
RdLoad ==
    /\ rd_pc = "type"
    /\ \E c \in {read_dispatch(rd_used)} :
          /\ rd_call' = c
          /\ rd_pc' = IF c = "NotYetImplemented" THEN "error" ELSE "done"
    /\ UNCHANGED rd_used
    /\ rd_frame

RdNext == RdType \/ RdLoad

SpecRead == RdInit /\ [][RdNext]_vars

\* the binary types other than the COO's own
OtherBinary == {"PIGO_CSR_BIN", "PIGO_DIGRAPH_BIN", "PIGO_TENSOR_BIN"}

\* C33: constructing a COO from a file detected or declared as binary CSR,
\* DiGraph or Tensor calls a loader and yields a COO: once the type used is
\* one of the three, COO::read_ does not end in an exception because of it.
C33_OtherBinaryDelegated ==
    (rd_pc \in {"done", "error"} /\ rd_used \in OtherBinary) =>
        /\ rd_pc = "done"
        /\ rd_call # "NotYetImplemented"

\* what holds of the code: binary CSR is delegated, DiGraph and Tensor end in
\* NotYetImplemented
C33_OnlyCsrDelegated ==
    (rd_pc \in {"done", "error"} /\ rd_used \in OtherBinary) =>
        IF rd_used = "PIGO_CSR_BIN"
        THEN rd_pc = "done" /\ rd_call = "CSR, convert_csr_"
        ELSE rd_pc = "error" /\ rd_call = "NotYetImplemented"

-----------------------------------------------------------------------------
(* The loops of Pass 1 and Pass 2 of read_el_ under the scheduling of the  *)
(* parallel region: every thread of the team keeps running.                *)

\* read_el_ has a step to take: ENABLED <<Next>>_vars
Running == pc \in {"open", "run"}

\* weak fairness of Next, WF_vars(Next), with its enabling condition written
\* as the state predicate Running
SpecLive == Init /\ [][Next]_vars /\ ([]<>(~Running) \/ []<><<Next>>_vars)

\* the reader at d is at a decimal digit or at its end
AtDigitOrEnd(d, end) == d = end \/ (d < end /\ Peek(d) \in Digits)

\* every call of read_coord_entry_<true> of the Pass 1 loop started at d
\* advances the reader and leaves it at a digit or at end
RECURSIVE CountCallsAdvance(_, _)
CountCallsAdvance(d, end) ==
    good(d, end) =>
        With(read_coord_entry_count(d, end, 0).d, LAMBDA d1 :
            /\ d1 > d
            /\ AtDigitOrEnd(d1, end)
            /\ CountCallsAdvance(d1, end))

\* the reader of thread t before its next call of read_coord_entry_<false>
Pass2Reader(t) == IF wpc[t] = "bar2" THEN rs[t].d ELSE rs_p2[t]

\* every thread is past both barriers and has left its Pass 2 loop
AllFin == \A t \in Threads : wpc[t] = "fin"

-----------------------------------------------------------------------------
(* The loop over the output files of COO::split_cvs_write,                 *)
(*   for (O start=0; start<=m_; start += edge_per_file)                    *)
(* with O = uint32_t.  A value of O is held as its two 16-bit halves,      *)
(* [hi, lo]; what is written to each file is the subject of SpecSplit.     *)

OHalf == 2^16

\* the value n < 2^31 in O
o_of(n) == [hi |-> n \div OHalf, lo |-> n % OHalf]

\* 2^31 in O
o_top_bit == [hi |-> OHalf \div 2, lo |-> 0]

\* the largest value of O less n, n < 2^16
o_max_less(n) == [hi |-> OHalf - 1, lo |-> OHalf - 1 - n]

\* a + b in O
o_add(a, b) ==
    [hi |-> (a.hi + b.hi + (a.lo + b.lo) \div OHalf) % OHalf,
     lo |-> (a.lo + b.lo) % OHalf]

\* a + b is more than the largest value of O
o_carry(a, b) == a.hi + b.hi + (a.lo + b.lo) \div OHalf >= OHalf

\* a < b in O
o_less(a, b) == a.hi < b.hi \/ (a.hi = b.hi /\ a.lo < b.lo)

\* std::min(a, b)
o_min(a, b) == IF o_less(b, a) THEN b ELSE a

\* the numbers of edges: up to MaxEdges, 2^31, and the largest values of O
LpEdges ==
    {o_of(n) : n \in 0..MaxEdges} \cup {o_top_bit}
        \cup {o_max_less(n) : n \in 0..MaxEdges}

\* the values of edge_per_file: up to MaxPerFile, and 2^30 and 2^31
LpPerFile ==
    {o_of(n) : n \in 1..MaxPerFile} \cup {o_of(2^30), o_top_bit}

\* the arguments: a large m_ with a large edge_per_file only, so that the
\* loop makes few iterations before start passes m_ or comes back to 0
LpInputs ==
    {i \in [m : LpEdges, k : LpPerFile] : i.m.hi > 0 => i.k.hi > 0}

LpInit ==
    /\ ElIdle
    /\ BinIdle
    /\ TwIdle
    /\ CvIdle
    /\ MmIdle
    /\ AltIdle
    /\ GfIdle
    /\ SpIdle
    /\ ScIdle
    /\ FmIdle
    /\ CpIdle
    /\ RdIdle
    /\ lp_pc = "test"
    /\ lp_in \in LpInputs
    /\ lp_start = o_of(0)
    /\ lp_end = o_of(0)

lp_frame ==
    UNCHANGED <<el_vars, bin_vars, tw_vars, cv_vars, mm_vars, alt_vars, gf_vars,
                sp_vars, sc_vars, fm_vars, cp_vars, rd_vars, lp_in>>

\* the test start <= m_, and O end = std::min(m_, start + edge_per_file)
LpTest ==
    /\ lp_pc = "test"
    /\ IF ~o_less(lp_in.m, lp_start)
       THEN /\ lp_pc' = "body"
            /\ lp_end' = o_min(lp_in.m, o_add(lp_start, lp_in.k))
       ELSE /\ lp_pc' = "done"
            /\ UNCHANGED lp_end
    /\ UNCHANGED lp_start
    /\ lp_frame

\* the file of the edges start..end-1 is written; start += edge_per_file
LpBody ==
    /\ lp_pc = "body"
    /\ lp_start' = o_add(lp_start, lp_in.k)
    /\ lp_pc' = "test"
    /\ UNCHANGED lp_end
    /\ lp_frame

LpNext == LpTest \/ LpBody

\* the thread that runs the loop keeps running
SpecChunks == LpInit /\ [][LpNext]_vars /\ WF_vars(LpNext)

\* start passes m_ before start + edge_per_file passes the largest value of O
RECURSIVE PassesBeforeCarry(_)
PassesBeforeCarry(start) ==
    IF o_less(lp_in.m, start) THEN TRUE
    ELSE IF o_carry(start, lp_in.k) THEN FALSE
    ELSE PassesBeforeCarry(o_add(start, lp_in.k))

\* C35: split_cvs_write terminates for every m representable in O and every
\* edge_per_file >= 1, start being computed in O (start += edge_per_file,
\* condition start <= m), also when m or start + edge_per_file reaches the
\* largest value of O.
C35_SplitTerminates == <>(lp_pc = "done")

\* what holds of the code: the loop ends when start passes m_ before the
\* addition wraps
C35_TerminatesShortOfWrap ==
    (lp_pc = "test" /\ lp_start = o_of(0) /\ PassesBeforeCarry(o_of(0)))
        => <>(lp_pc = "done")

\* when start + edge_per_file wraps with start <= m_, the loop is back at
\* an earlier start and the test holds again
C35_WrapsToEarlierStart ==
    [][(lp_pc = "body" /\ o_carry(lp_start, lp_in.k)) =>
          (o_less(lp_start', lp_start) /\ ~o_less(lp_in.m, lp_start'))]_vars

=============================================================================
